---- MODULE Spec2Model ----
(***************************************************************************)
(* Parcel lifecycle orchestration core of the warehouse delivery service:  *)
(* ParcelsService, ExceptionsService, DeliveriesService, AuditService,     *)
(* ParcelStateMachineValidator and IdempotencyInterceptor, over the        *)
(* relational tables Parcel, ParcelStateHistory, Exception, Delivery,      *)
(* AuditLog and IdempotencyKey.                                            *)
(*                                                                         *)
(* Every service method is an HTTP request handled by an async function.   *)
(* A request is modelled in two steps, split where the code leaves the     *)
(* database between statements:                                            *)
(*   <op>Read   : the findUnique/findFirst reads and the precondition      *)
(*                checks made on them, before any write;                   *)
(*   <op>Commit : the prisma.$transaction (or single update) with every    *)
(*                write of the handler, followed by auditService.log and   *)
(*                the response.                                            *)
(* Requests in flight interleave between the two steps.  A $transaction is *)
(* atomic: it commits all of its writes or none.                           *)
(***************************************************************************)
EXTENDS Integers, Sequences, FiniteSets, Bags, TLC

VARIABLES
  dbChecks,      \* whether add_check_constraints.sql was applied to the database: a fact
                 \* of the deployment, "unobserved" until the first write it decides
  parcels,       \* table Parcel, a sequence; a parcel's id is its index
  stateHistory,  \* table ParcelStateHistory, in creation order
  exceptions,    \* table Exception; an exception's id is its index
  deliveries,    \* table Delivery; a delivery's id is its index
  auditLog,      \* table AuditLog, in creation order
  notifications, \* table Notification, in creation order
  users,         \* table User: the saved delivery address of each member
  feeConfigurations, \* table FeeConfiguration, in the order the database returns rows
  idemKeys,      \* table IdempotencyKey, by key
  req,           \* the requests in flight, a bag of records
  response,      \* the finished request whose response is being sent, or Idle
  budget,        \* number of requests still to be received
  returned       \* history: first successful response returned per key in the last 24h

vars == <<feeConfigurations, dbChecks, parcels, stateHistory, exceptions, deliveries, auditLog,
          notifications, users, idemKeys, req, response, budget, returned>>

db == <<parcels, stateHistory, exceptions, deliveries, auditLog, notifications, users>>

----------------------------------------------------------------------------
(* Bounds *)

MaxInFlight == 3       \* requests in flight at a time
MaxRequests == 2       \* requests received in one behaviour of Spec
MaxExcRequests == 5    \* requests received in one behaviour of SpecExc
MaxLifecycleRequests == 3  \* requests received in one behaviour of SpecLifecycle
MaxKeyRequests == 3    \* requests received in one behaviour of SpecKeys
MaxFeeRequests == 3    \* requests received in one behaviour of SpecFee
MaxTxRequests == 3     \* requests received in one behaviour of SpecTx

----------------------------------------------------------------------------
(* Enumerations of the schema *)

ParcelState == {"EXPECTED", "ARRIVED", "STORED", "DELIVERY_REQUESTED",
                "OUT_FOR_DELIVERY", "DELIVERED"}

ExceptionType == {"MISSING_MEMBER_CODE", "INVALID_MEMBER_CODE", "ILLEGIBLE_LABEL",
                  "DAMAGED_PARCEL", "DUPLICATE_TRACKING", "CONFLICTING_OWNERSHIP", "OTHER"}

ExceptionStatus == {"OPEN", "IN_PROGRESS", "RESOLVED", "CANCELLED"}

PaymentStatus == {"PENDING", "CONFIRMED", "FAILED", "REFUNDED"}

Null == "null"

(* Inputs the requests are drawn from *)
TrackingNumbers == {"TRK-1", "TRK-2"}
TypesReported == {"DAMAGED_PARCEL", "ILLEGIBLE_LABEL"}
\* values of the Idempotency-Key header, by length: 15, 16, 64 and 65 characters
Key15 == "550e8400-e29b-4"
Key16 == "550e8400-e29b-41"
Key64 == "550e8400-e29b-41d4-a716-446655440000-550e8400-e29b-41d4-a716-446"
Key65 == "550e8400-e29b-41d4-a716-446655440000-550e8400-e29b-41d4-a716-4466"
\* the keys that can have a record in the table
Keys == {Key16, Key64}
\* the header is absent (or empty): !idempotencyKey
NoKey == ""

(* Member directory: prisma.user.findUnique({ where: { memberCode } }) *)
userByMemberCode(code) ==
  CASE code = "PHW-USER01" -> [found |-> TRUE, id |-> "user1", isActive |-> TRUE, isDeleted |-> FALSE]
    [] code = "PHW-USER02" -> [found |-> TRUE, id |-> "user2", isActive |-> TRUE, isDeleted |-> FALSE]
    [] code = "PHW-INACT1" -> [found |-> TRUE, id |-> "user3", isActive |-> FALSE, isDeleted |-> FALSE]
    [] OTHER -> [found |-> FALSE, id |-> Null, isActive |-> FALSE, isDeleted |-> FALSE]

----------------------------------------------------------------------------
(* State Transition Validator *)

STATE_TRANSITIONS(s) ==
  CASE s = "EXPECTED" -> {"ARRIVED"}
    [] s = "ARRIVED" -> {"STORED"}
    [] s = "STORED" -> {"DELIVERY_REQUESTED"}
    [] s = "DELIVERY_REQUESTED" -> {"OUT_FOR_DELIVERY"}
    [] s = "OUT_FOR_DELIVERY" -> {"DELIVERED"}
    [] OTHER -> {}

VALID_STATE_TRANSITIONS(s) ==
  CASE s = "EXPECTED" -> {"ARRIVED"}
    [] s = "ARRIVED" -> {"STORED"}
    [] s = "STORED" -> {"DELIVERY_REQUESTED"}
    [] s = "DELIVERY_REQUESTED" -> {"OUT_FOR_DELIVERY"}
    [] s = "OUT_FOR_DELIVERY" -> {"DELIVERED"}
    [] OTHER -> {}

isValidAdminOverride(fromState, toState) ==
  LET allowed == CASE fromState = "DELIVERED" -> {"STORED"}
                   [] fromState = "OUT_FOR_DELIVERY" -> {"STORED"}
                   [] fromState = "DELIVERY_REQUESTED" -> {"STORED"}
                   [] OTHER -> {}
  IN toState \in allowed

\* validateTransition below with the exception check left out
validateTransitionIgnoringLock(fromState, toState, hasException, isAdminOverride) ==
  IF fromState = toState THEN FALSE
  ELSE IF toState \notin VALID_STATE_TRANSITIONS(fromState)
       THEN isAdminOverride /\ isValidAdminOverride(fromState, toState)
  ELSE TRUE

\* validateTransition: the field valid of its result
validateTransition(fromState, toState, hasException, isAdminOverride) ==
  IF fromState = toState THEN FALSE
  ELSE IF hasException /\ ~isAdminOverride THEN FALSE
  ELSE IF toState \notin VALID_STATE_TRANSITIONS(fromState)
       THEN isAdminOverride /\ isValidAdminOverride(fromState, toState)
  ELSE TRUE

\* an array of the transition tables as a sequence (each holds one state at most)
AsList(states) ==
  IF states = {} THEN <<>> ELSE <<CHOOSE t \in states : TRUE>>

\* [...new Set(list)]: the list without the later occurrences of a state
RECURSIVE Uniq(_)
Uniq(list) ==
  IF list = <<>> THEN <<>>
  ELSE LET front == Uniq(SubSeq(list, 1, Len(list) - 1))
           last == list[Len(list)]
       IN IF \E i \in 1..Len(front) : front[i] = last THEN front ELSE Append(front, last)

\* getValidNextStates below without the admin overrides
getValidNextStatesStandard(currentState, isAdmin) ==
  AsList(VALID_STATE_TRANSITIONS(currentState))

\* getValidNextStates: the standard transitions, and for an admin the overrides as well
getValidNextStates(currentState, isAdmin) ==
  LET standardTransitions == AsList(VALID_STATE_TRANSITIONS(currentState))
      overrides == AsList(CASE currentState = "DELIVERED" -> {"STORED"}
                            [] currentState = "OUT_FOR_DELIVERY" -> {"STORED"}
                            [] currentState = "DELIVERY_REQUESTED" -> {"STORED"}
                            [] OTHER -> {})
  IN IF ~isAdmin THEN standardTransitions ELSE Uniq(standardTransitions \o overrides)

TRANSITION_RULES(s) ==
  CASE s = "EXPECTED" ->
         "Expected parcels can only transition to ARRIVED when physically received"
    [] s = "ARRIVED" -> "Arrived parcels must be processed and moved to STORED"
    [] s = "STORED" -> "Stored parcels can only transition to DELIVERY_REQUESTED by user"
    [] s = "DELIVERY_REQUESTED" ->
         "Delivery requested parcels transition to OUT_FOR_DELIVERY when dispatched"
    [] s = "OUT_FOR_DELIVERY" ->
         "Out for delivery parcels transition to DELIVERED upon completion"
    [] s = "DELIVERED" -> "Delivered is a terminal state - no further transitions allowed"

\* validateTransitionError below with the exception check made first
validateTransitionErrorLockFirst(fromState, toState, hasException, isAdminOverride) ==
  IF hasException /\ ~isAdminOverride
  THEN <<"Parcel has an active exception. Exception must be resolved before state changes.">>
  ELSE IF fromState = toState
  THEN <<"Parcel is already in", toState, "state">>
  ELSE IF /\ toState \notin VALID_STATE_TRANSITIONS(fromState)
          /\ ~(isAdminOverride /\ isValidAdminOverride(fromState, toState))
  THEN <<"Invalid transition from", fromState, "to", toState, TRANSITION_RULES(fromState)>>
  ELSE <<>>

\* validateTransition: the field error of its result, the pieces of the message in
\* order, <<>> when there is none
validateTransitionError(fromState, toState, hasException, isAdminOverride) ==
  IF fromState = toState
  THEN <<"Parcel is already in", toState, "state">>
  ELSE IF hasException /\ ~isAdminOverride
  THEN <<"Parcel has an active exception. Exception must be resolved before state changes.">>
  ELSE IF /\ toState \notin VALID_STATE_TRANSITIONS(fromState)
          /\ ~(isAdminOverride /\ isValidAdminOverride(fromState, toState))
  THEN <<"Invalid transition from", fromState, "to", toState, TRANSITION_RULES(fromState)>>
  ELSE <<>>

----------------------------------------------------------------------------
(* Fees.  Weights are in hundredths of a kilogram, fees in pesos. *)

\* a row of FeeConfiguration; maxWeight is {} for NULL, else {m}
FeeConfiguration(baseFee, perKgRate, minWeight, maxWeight, isActive) ==
  [baseFee |-> baseFee, perKgRate |-> perKgRate, minWeight |-> minWeight,
   maxWeight |-> maxWeight, isActive |-> isActive]

\* seed.ts: the configuration 'standard', 100 base and 50 per kg, from 0 to 50 kg
SeedFeeConfigurations == <<FeeConfiguration(100, 50, 0, {5000}, TRUE)>>

\* the fallback of calculateFee: feeConfig?.baseFee ?? 50, feeConfig?.perKgRate ?? 20
DefaultFee == [baseFee |-> 50, perKgRate |-> 20]

\* Math.round of a weight, in whole kilograms
Math_round(weightKg) ==
  (weightKg + 50) \div 100

\* Math.ceil of a weight, in whole kilograms
Math_ceil(weightKg) ==
  (weightKg + 99) \div 100

\* the where clause of calculateFee: isActive, minWeight <= weight, and maxWeight
\* NULL or maxWeight >= weight
feeConfigMatches(c, weightKg) ==
  /\ c.isActive
  /\ c.minWeight <= weightKg
  /\ c.maxWeight = {} \/ \E m \in c.maxWeight : m >= weightKg

\* prisma.feeConfiguration.findFirst, orderBy minWeight desc: the index of the row
\* returned, in a set, or {} for null; among rows of equal minWeight the first of the
\* table as the database returns it
findFirstFeeConfig(table, weightKg) ==
  LET found == {i \in 1..Len(table) : feeConfigMatches(table[i], weightKg)}
  IN {i \in found : \A j \in found :
                       \/ table[j].minWeight < table[i].minWeight
                       \/ table[j].minWeight = table[i].minWeight /\ i <= j}

\* calculateFee over a given table
calculateFeeOver(table, weightKg) ==
  LET feeConfig == findFirstFeeConfig(table, weightKg)
      chosen == IF feeConfig = {} THEN DefaultFee ELSE table[CHOOSE i \in feeConfig : TRUE]
      roundedWeight == Math_ceil(weightKg)
      weightFee == roundedWeight * chosen.perKgRate
  IN [baseFee |-> chosen.baseFee, weightFee |-> weightFee,
      totalFee |-> chosen.baseFee + weightFee]

\* calculateFee
calculateFee(weightKg) == calculateFeeOver(feeConfigurations, weightKg)

\* no fee was calculated
NoFee == [baseFee |-> 0, weightFee |-> 0, totalFee |-> 0]

----------------------------------------------------------------------------
(* Rows *)

\* weight is the weight registered at intake, 3.5 kg unless a specification sets it
Parcel(tn, mc, owner, st, ex) ==
  [trackingNumber |-> tn, memberCode |-> mc, ownerId |-> owner, state |-> st,
   hasException |-> ex, isDeleted |-> FALSE, weight |-> 350]

HistoryRow(p, from, to, notes) ==
  [parcelId |-> p, fromState |-> from, toState |-> to, notes |-> notes]

\* everClosed is history: the exception was resolved or cancelled at some time
ExceptionRow(p, ty) ==
  [parcelId |-> p, type |-> ty, status |-> "OPEN", handledById |-> Null,
   resolution |-> FALSE, resolvedAt |-> FALSE, everClosed |-> FALSE]

\* paymentConfirmedAt is 0 for NULL, else the number of the confirmation that wrote it
\* (new Date() differs from one write to the next); fee holds the columns baseFee,
\* weightFee and totalFee, here those of a seeded delivery
DeliveryRow(p, user, pay, dispatched, delivered) ==
  [parcelId |-> p, recipientId |-> user, paymentStatus |-> pay,
   paymentConfirmedAt |-> IF pay = "CONFIRMED" THEN 1 ELSE 0,
   paymentConfirmedById |-> IF pay = "CONFIRMED" THEN "staff" ELSE Null,
   dispatchedAt |-> dispatched, deliveredAt |-> delivered,
   weightKg |-> 350, fee |-> calculateFeeOver(SeedFeeConfigurations, 350)]

\* previousData and newData hold the parcel state or the owner id of the snapshot,
\* Null when the snapshot has neither
AuditEntry(action, entityType, entityId) ==
  [action |-> action, entityType |-> entityType, entityId |-> entityId,
   previousData |-> Null, newData |-> Null]

\* insertThrew is history: an insert of the key threw for a reason other than a duplicate
NoRecord == [present |-> FALSE, expired |-> FALSE, userId |-> Null, endpoint |-> "none",
             statusCode |-> "none", response |-> 0, insertThrew |-> FALSE]

NoPrior == [op |-> "none", pid |-> 0, did |-> 0, actor |-> "", result |-> "none", body |-> 0]

Idle == [pc |-> "idle", op |-> "none", pid |-> 0, eid |-> 0, did |-> 0, arg |-> "",
         arg2 |-> "", actor |-> "", key |-> NoKey, snap |-> "", snapLock |-> FALSE,
         snapOwner |-> Null, isAdminOverride |-> FALSE, error |-> <<>>,
         result |-> "none", body |-> 0, executed |-> FALSE, committed |-> FALSE,
         overlapped |-> FALSE, prior |-> NoPrior, fee |-> NoFee,
         states |-> <<>>, others |-> 0]

----------------------------------------------------------------------------
(* Queries *)

ParcelIds == 1..Len(parcels)
ExceptionIds == 1..Len(exceptions)
DeliveryIds == 1..Len(deliveries)

IsOpen(e) == exceptions[e].status \in {"OPEN", "IN_PROGRESS"}

\* prisma.parcel.findUnique({ where: { trackingNumber } })
parcelByTracking(tn) == {p \in ParcelIds : parcels[p].trackingNumber = tn}

\* parcel.delivery (Delivery.parcelId is unique)
deliveryOf(p) == {d \in DeliveryIds : deliveries[d].parcelId = p}

\* state-history rows of one parcel, oldest first
historyOf(p) == SelectSeq(stateHistory, LAMBDA h : h.parcelId = p)

\* tx.exception.count({ parcelId, id: { not: e }, status in [OPEN, IN_PROGRESS] })
otherOpenExceptions(p, e) ==
  Cardinality({x \in ExceptionIds : x # e /\ exceptions[x].parcelId = p /\ IsOpen(x)})

\* CHECK ((ownerId IS NOT NULL) OR (hasException = true))
Parcel_orphan_must_be_exception(row) == row.ownerId # Null \/ row.hasException

\* ids a request can name: those of the rows of a table and one that is not there
IdsNamed(table) == 1..(Len(table) + 1)

\* a seed has at most one row per table and a request adds at most one
Ids == 1..(MaxRequests + 2)

----------------------------------------------------------------------------
(* Seed rows of prisma/seed.ts, one parcel at a time *)

SeedEmpty ==
  [parcels |-> <<>>, stateHistory |-> <<>>, exceptions |-> <<>>, deliveries |-> <<>>]

SeedArrived ==
  [parcels |-> <<Parcel("TRK-1", "PHW-USER01", "user1", "ARRIVED", FALSE)>>,
   stateHistory |-> <<HistoryRow(1, Null, "ARRIVED", Null)>>,
   exceptions |-> <<>>, deliveries |-> <<>>]

SeedStored ==
  [parcels |-> <<Parcel("TRK-1", "PHW-USER01", "user1", "STORED", FALSE)>>,
   stateHistory |-> <<HistoryRow(1, Null, "ARRIVED", Null), HistoryRow(1, "ARRIVED", "STORED", Null)>>,
   exceptions |-> <<>>, deliveries |-> <<>>]

SeedRequested ==
  [parcels |-> <<Parcel("TRK-1", "PHW-USER01", "user1", "DELIVERY_REQUESTED", FALSE)>>,
   stateHistory |-> <<HistoryRow(1, Null, "ARRIVED", Null), HistoryRow(1, "ARRIVED", "STORED", Null),
                      HistoryRow(1, "STORED", "DELIVERY_REQUESTED", Null)>>,
   exceptions |-> <<>>,
   deliveries |-> <<DeliveryRow(1, "user1", "PENDING", FALSE, FALSE)>>]

\* the requested delivery above once the staff has confirmed its payment
SeedPaid ==
  [parcels |-> SeedRequested.parcels, stateHistory |-> SeedRequested.stateHistory,
   exceptions |-> <<>>,
   deliveries |-> <<DeliveryRow(1, "user1", "CONFIRMED", FALSE, FALSE)>>]

SeedOutForDelivery ==
  [parcels |-> <<Parcel("TRK-1", "PHW-USER01", "user1", "OUT_FOR_DELIVERY", FALSE)>>,
   stateHistory |-> <<HistoryRow(1, Null, "ARRIVED", Null), HistoryRow(1, "ARRIVED", "STORED", Null),
                      HistoryRow(1, "STORED", "DELIVERY_REQUESTED", Null),
                      HistoryRow(1, "DELIVERY_REQUESTED", "OUT_FOR_DELIVERY", Null)>>,
   exceptions |-> <<>>,
   deliveries |-> <<DeliveryRow(1, "user1", "CONFIRMED", TRUE, FALSE)>>]

SeedDelivered ==
  [parcels |-> <<Parcel("TRK-1", "PHW-USER01", "user1", "DELIVERED", FALSE)>>,
   stateHistory |-> Append(SeedOutForDelivery.stateHistory,
                           HistoryRow(1, "OUT_FOR_DELIVERY", "DELIVERED", Null)),
   exceptions |-> <<>>,
   deliveries |-> <<DeliveryRow(1, "user1", "CONFIRMED", TRUE, TRUE)>>]

SeedOrphan ==
  [parcels |-> <<Parcel("TRK-1", "PHW-UNKNOWN", Null, "ARRIVED", TRUE)>>,
   stateHistory |-> <<HistoryRow(1, Null, "ARRIVED", "Member code not found")>>,
   exceptions |-> <<ExceptionRow(1, "INVALID_MEMBER_CODE")>>,
   deliveries |-> <<>>]

Seeds == {SeedEmpty, SeedArrived, SeedStored, SeedRequested, SeedPaid, SeedOutForDelivery,
          SeedDelivered, SeedOrphan}

InitFrom(seeds, requests) ==
  /\ budget = requests
  /\ dbChecks = "unobserved"
  /\ \E s \in seeds :
       /\ parcels = s.parcels
       /\ stateHistory = s.stateHistory
       /\ exceptions = s.exceptions
       /\ deliveries = s.deliveries
  /\ auditLog = <<>>
  /\ notifications = <<>>
  /\ users = [u \in {"user1", "user2"} |-> [deliveryAddress |-> Null]]
  /\ feeConfigurations = SeedFeeConfigurations
  /\ idemKeys = [k \in Keys |-> NoRecord]
  /\ req = EmptyBag
  /\ response = Idle
  /\ returned = [k \in Keys |-> NoPrior]

Init == InitFrom(Seeds, MaxRequests)

----------------------------------------------------------------------------
(* Request plumbing *)

\* the requests in flight
Requests == BagToSet(req)

\* no response is waiting to be sent
Quiet == response = Idle

\* the request q is between its reads and its writes
At(q, op) == Quiet /\ q.pc = "commit" /\ q.op = op

\* the response of the finished request is sent
Respond ==
  /\ ~Quiet
  /\ response' = Idle
  /\ UNCHANGED <<feeConfigurations, dbChecks, db, idemKeys, req, budget, returned>>

\* a request can be received
Ready ==
  /\ budget > 0
  /\ Quiet
  /\ BagCardinality(req) < MaxInFlight

\* a request is received: rejected by its checks (rec.pc = "done"), or in flight
Begin(rec) ==
  /\ budget' = budget - 1
  /\ IF rec.pc = "done"
     THEN response' = rec /\ UNCHANGED req
     ELSE req' = req (+) SetToBag({rec}) /\ UNCHANGED response

\* the exception requests in flight on parcel p
ExceptionRequests(p) ==
  {q \in Requests : /\ q.pc \in {"commit", "unlock"} /\ q.pid = p
                    /\ q.op \in {"create", "assign", "resolve", "cancel"}}

\* an exception request is received: it overlaps the exception requests in flight
\* on the same parcel (history kept for the claims about requests that run alone)
BeginException(rec) ==
  LET others == ExceptionRequests(rec.pid)
      Overlap(q) == IF q \in others THEN [q EXCEPT !.overlapped = TRUE] ELSE q
  IN /\ budget' = budget - 1
     /\ IF rec.pc = "done"
        THEN response' = rec /\ UNCHANGED req
        ELSE /\ req' = BagOfAll(Overlap, req)
                         (+) SetToBag({[rec EXCEPT !.overlapped = (others # {})]})
             /\ UNCHANGED response

\* the create below as an upsert by entity: an earlier entry of the entity is replaced
logLatest(ok, action, entityType, entityId) ==
  auditLog' = IF ok
              THEN Append(SelectSeq(auditLog,
                                    LAMBDA a : ~(a.entityType = entityType
                                                 /\ a.entityId = entityId)),
                          AuditEntry(action, entityType, entityId))
              ELSE auditLog

\* AuditService.log: prisma.auditLog.create; the create either succeeds or throws
log(ok, action, entityType, entityId) ==
  auditLog' = IF ok THEN Append(auditLog, AuditEntry(action, entityType, entityId))
              ELSE auditLog

\* AuditService.log with previousData and newData snapshots
logData(ok, action, entityType, entityId, previousData, newData) ==
  auditLog' = IF ok
              THEN Append(auditLog, [AuditEntry(action, entityType, entityId)
                                       EXCEPT !.previousData = previousData,
                                              !.newData = newData])
              ELSE auditLog

\* NotificationsService.create: prisma.notification.create, succeeds or throws
notify(sent, userId, type, parcelId) ==
  notifications' = IF sent
                   THEN Append(notifications,
                               [userId |-> userId, type |-> type, parcelId |-> parcelId])
                   ELSE notifications

\* how a handler ends after its writes: the audit write threw, the awaited
\* notification threw, or it returns its result
Outcome(ok, notified) ==
  IF ~ok THEN "AuditFailed" ELSE IF ~notified THEN "NotifyFailed" ELSE "ok"

\* the handler is over after its writes
Finish(q, result, body) ==
  /\ req' = req (-) SetToBag({q})
  /\ response' = [q EXCEPT !.pc = "done", !.result = result, !.body = body,
                           !.committed = TRUE]

\* the transaction (or single write) threw: nothing of it is persisted
Abort(q) ==
  /\ req' = req (-) SetToBag({q})
  /\ response' = [q EXCEPT !.pc = "done", !.result = "DbError"]
  /\ UNCHANGED db

\* prisma.$transaction (or the single write of a handler without one) throws on a
\* database error: its writes are rolled back and the handler rejects
transactionFails ==
  \E q \in Requests :
    /\ Quiet
    /\ q.pc = "commit"
    /\ Abort(q)
    /\ UNCHANGED <<feeConfigurations, dbChecks, idemKeys, budget, returned>>

\* a write of a parcel row that the check constraint rejects: the write throws when
\* the constraint is installed and goes through (Write) when it is not
Constrained(q, row, Write) ==
  IF Parcel_orphan_must_be_exception(row)
  THEN Write /\ UNCHANGED <<feeConfigurations, dbChecks>>
  ELSE \E installed \in {"applied", "absent"} :
         /\ dbChecks \in {"unobserved", installed}
         /\ dbChecks' = installed
         /\ UNCHANGED feeConfigurations
         /\ IF installed = "applied" THEN Abort(q) ELSE Write

----------------------------------------------------------------------------
(* ParcelsService *)

\* intake: duplicate check and owner lookup
intakeRead(tn, mc) ==
  /\ Ready
  /\ IF parcelByTracking(tn) # {}
     THEN Begin([Idle EXCEPT !.pc = "done", !.op = "intake", !.arg = tn, !.arg2 = mc,
                             !.result = "BadRequest"])
     ELSE Begin([Idle EXCEPT !.pc = "commit", !.op = "intake", !.arg = tn, !.arg2 = mc])
  /\ UNCHANGED <<feeConfigurations, dbChecks, db, idemKeys, returned>>

\* the row below with the exception lock left unset
intakeRowUnlocked(tn, mc, owner, isOrphan) ==
  Parcel(tn, mc, IF isOrphan THEN Null ELSE owner.id, "ARRIVED", FALSE)

\* intake, tx.parcel.create: the row of the new parcel
intakeRow(tn, mc, owner, isOrphan) ==
  Parcel(tn, mc, IF isOrphan THEN Null ELSE owner.id, "ARRIVED", isOrphan)

\* the Parcel table without the unique index on trackingNumber
Parcel_trackingNumber_plain(tn) ==
  FALSE

\* CREATE UNIQUE INDEX "Parcel_trackingNumber_key": an insert with tracking number tn
\* is refused when a parcel row, soft-deleted or not, has it
Parcel_trackingNumber_key(tn) ==
  parcelByTracking(tn) # {}

\* intake: transaction (parcel, first history row, exception of an orphan), then audit
intakeCommit ==
  \E q \in Requests :
    /\ At(q, "intake")
    /\ LET owner == userByMemberCode(q.arg2)
           isOrphan == ~owner.found \/ owner.isDeleted \/ ~owner.isActive
           id == Len(parcels) + 1
       IN IF Parcel_trackingNumber_key(q.arg)
          THEN \* tx.parcel.create throws, the transaction rolls back
               Abort(q)
          ELSE /\ parcels' = Append(parcels, intakeRow(q.arg, q.arg2, owner, isOrphan))
               /\ stateHistory' = Append(stateHistory,
                                    HistoryRow(id, Null, "ARRIVED", "Parcel registered at intake"))
               /\ exceptions' = IF isOrphan
                                THEN Append(exceptions, ExceptionRow(id, "INVALID_MEMBER_CODE"))
                                ELSE exceptions
               /\ UNCHANGED <<deliveries, users>>
               /\ \E ok \in BOOLEAN :
                    /\ log(ok, "PARCEL_REGISTERED", "Parcel", id)
                    /\ \E sent \in BOOLEAN :
                         /\ notify(ok /\ ~isOrphan /\ sent, owner.id, "PARCEL_ARRIVED", id)
                         /\ Finish(q, Outcome(ok, ~isOrphan => sent), id)
    /\ UNCHANGED <<feeConfigurations, dbChecks, idemKeys, budget, returned>>

\* updateStateRead below with the check of the exception lock left out
updateStateReadNoLockCheck(p, newState) ==
  /\ Ready
  /\ p \in IdsNamed(parcels)
  /\ LET base == [Idle EXCEPT !.op = "updateState", !.pid = p, !.arg = newState]
     IN IF p \notin ParcelIds \/ parcels[p].isDeleted
        THEN Begin([base EXCEPT !.pc = "done", !.result = "NotFound"])
        ELSE LET seen == [base EXCEPT !.snap = parcels[p].state,
                                      !.snapLock = parcels[p].hasException]
             IN IF newState \notin STATE_TRANSITIONS(parcels[p].state)
                THEN Begin([seen EXCEPT !.pc = "done", !.result = "BadRequest"])
                ELSE Begin([seen EXCEPT !.pc = "commit"])
  /\ UNCHANGED <<feeConfigurations, dbChecks, db, idemKeys, returned>>

\* updateState: read of the parcel and the checks on it
updateStateRead(p, newState) ==
  /\ Ready
  /\ p \in IdsNamed(parcels)
  /\ LET base == [Idle EXCEPT !.op = "updateState", !.pid = p, !.arg = newState]
     IN IF p \notin ParcelIds \/ parcels[p].isDeleted
        THEN Begin([base EXCEPT !.pc = "done", !.result = "NotFound"])
        ELSE LET seen == [base EXCEPT !.snap = parcels[p].state,
                                      !.snapLock = parcels[p].hasException]
             IN IF parcels[p].hasException
                THEN Begin([seen EXCEPT !.pc = "done", !.result = "Forbidden"])
                ELSE IF newState \notin STATE_TRANSITIONS(parcels[p].state)
                THEN Begin([seen EXCEPT !.pc = "done", !.result = "BadRequest"])
                ELSE Begin([seen EXCEPT !.pc = "commit"])
  /\ UNCHANGED <<feeConfigurations, dbChecks, db, idemKeys, returned>>

\* the transaction below with the history row left out
updateStateTxNoHistory(p, previousState, newState) ==
  /\ parcels' = [parcels EXCEPT ![p].state = newState]
  /\ UNCHANGED stateHistory

\* updateState, the transaction: the parcel's state, then the history row
updateStateTx(p, previousState, newState) ==
  /\ parcels' = [parcels EXCEPT ![p].state = newState]
  /\ stateHistory' = Append(stateHistory, HistoryRow(p, previousState, newState, "dto.notes"))

\* updateState: transaction, then audit, then the notification of a stored parcel
updateStateCommit ==
  \E q \in Requests :
    /\ At(q, "updateState")
    /\ LET p == q.pid
       IN /\ updateStateTx(p, q.snap, q.arg)
          /\ UNCHANGED <<exceptions, deliveries, users>>
          /\ \E ok \in BOOLEAN, sent \in BOOLEAN :
               LET due == parcels[p].ownerId # Null /\ q.arg = "STORED"
               IN /\ logData(ok, "PARCEL_STATE_CHANGED", "Parcel", p, q.snap, q.arg)
                  /\ notify(ok /\ due /\ sent, parcels[p].ownerId, "PARCEL_STORED", p)
                  /\ Finish(q, Outcome(ok, due => sent), p)
    /\ UNCHANGED <<feeConfigurations, dbChecks, idemKeys, budget, returned>>

\* softDelete: read of the parcel
softDeleteRead(p) ==
  /\ Ready
  /\ p \in IdsNamed(parcels)
  /\ LET base == [Idle EXCEPT !.op = "softDelete", !.pid = p]
     IN IF p \notin ParcelIds \/ parcels[p].isDeleted
        THEN Begin([base EXCEPT !.pc = "done", !.result = "NotFound"])
        ELSE Begin([base EXCEPT !.pc = "commit"])
  /\ UNCHANGED <<feeConfigurations, dbChecks, db, idemKeys, returned>>

\* findById, findByTrackingNumber, getStateHistory: read of the parcel
findById(p) ==
  /\ Ready
  /\ p \in IdsNamed(parcels)
  /\ LET base == [Idle EXCEPT !.pc = "done", !.op = "findById", !.pid = p]
     IN IF p \notin ParcelIds \/ parcels[p].isDeleted
        THEN Begin([base EXCEPT !.result = "NotFound"])
        ELSE Begin([base EXCEPT !.result = "ok", !.body = p])
  /\ UNCHANGED <<feeConfigurations, dbChecks, db, idemKeys, returned>>

\* the update below cascading to the state-history rows of the parcel
softDeleteCascade(p) ==
  /\ parcels' = [parcels EXCEPT ![p].isDeleted = TRUE]
  /\ stateHistory' = SelectSeq(stateHistory, LAMBDA h : h.parcelId # p)
  /\ UNCHANGED <<exceptions, deliveries>>

\* softDelete, prisma.parcel.update({ data: { isDeleted: true } })
softDeleteUpdate(p) ==
  /\ parcels' = [parcels EXCEPT ![p].isDeleted = TRUE]
  /\ UNCHANGED <<stateHistory, exceptions, deliveries>>

\* softDelete: update, then audit
softDeleteCommit ==
  \E q \in Requests :
    /\ At(q, "softDelete")
    /\ LET p == q.pid
       IN /\ softDeleteUpdate(p)
          /\ UNCHANGED <<notifications, users>>
          /\ \E ok \in BOOLEAN :
               /\ log(ok, "PARCEL_DELETED", "Parcel", p)
               /\ Finish(q, Outcome(ok, TRUE), p)
    /\ UNCHANGED <<feeConfigurations, dbChecks, idemKeys, budget, returned>>

\* overrideOwnership: read of the parcel, lookup of the new owner
overrideOwnershipRead(p, mc) ==
  /\ Ready
  /\ p \in IdsNamed(parcels)
  /\ LET base == [Idle EXCEPT !.op = "overrideOwnership", !.pid = p, !.arg2 = mc]
         newOwner == userByMemberCode(mc)
     IN IF p \notin ParcelIds \/ parcels[p].isDeleted
        THEN Begin([base EXCEPT !.pc = "done", !.result = "NotFound"])
        ELSE IF newOwner.found /\ (newOwner.isDeleted \/ ~newOwner.isActive)
        THEN Begin([base EXCEPT !.pc = "done", !.result = "BadRequest"])
        ELSE Begin([base EXCEPT !.pc = "commit", !.snapOwner = parcels[p].ownerId])
  /\ UNCHANGED <<feeConfigurations, dbChecks, db, idemKeys, returned>>

\* overrideOwnership: update of ownerId and memberCode, then audit
overrideOwnershipCommit ==
  \E q \in Requests :
    /\ At(q, "overrideOwnership")
    /\ LET p == q.pid
           newOwner == userByMemberCode(q.arg2)
           row == [parcels[p] EXCEPT !.ownerId = IF newOwner.found THEN newOwner.id ELSE Null,
                                     !.memberCode = q.arg2]
       IN Constrained(q, row,
            /\ parcels' = [parcels EXCEPT ![p] = row]
            /\ UNCHANGED <<stateHistory, exceptions, deliveries, users>>
            /\ \E ok \in BOOLEAN, sent \in BOOLEAN :
                 /\ logData(ok, "PARCEL_OWNER_ASSIGNED", "Parcel", p,
                            q.snapOwner, row.ownerId)
                 /\ notify(ok /\ newOwner.found /\ sent, newOwner.id, "PARCEL_ARRIVED", p)
                 /\ Finish(q, Outcome(ok, newOwner.found => sent), p))
    /\ UNCHANGED <<idemKeys, budget, returned>>

----------------------------------------------------------------------------
(* ExceptionsService *)

\* create: read of the parcel, search for an open exception of the same type
createRead(p, ty) ==
  /\ Ready
  /\ p \in IdsNamed(parcels)
  /\ LET base == [Idle EXCEPT !.op = "create", !.pid = p, !.arg = ty]
     IN IF p \notin ParcelIds \/ parcels[p].isDeleted
        THEN BeginException([base EXCEPT !.pc = "done", !.result = "NotFound"])
        ELSE IF \E e \in ExceptionIds : /\ exceptions[e].parcelId = p
                                        /\ exceptions[e].type = ty
                                        /\ IsOpen(e)
        THEN BeginException([base EXCEPT !.pc = "done", !.result = "BadRequest"])
        ELSE BeginException([base EXCEPT !.pc = "commit",
                                         !.snapOwner = parcels[p].ownerId])
  /\ UNCHANGED <<feeConfigurations, dbChecks, db, idemKeys, returned>>

\* create: transaction (exception row, parcel lock), then audit
createCommit ==
  \E q \in Requests :
    /\ At(q, "create")
    /\ LET p == q.pid
           id == Len(exceptions) + 1
       IN /\ exceptions' = Append(exceptions, ExceptionRow(p, q.arg))
          /\ parcels' = [parcels EXCEPT ![p].hasException = TRUE]
          /\ UNCHANGED <<stateHistory, deliveries, users>>
          /\ \E ok \in BOOLEAN, sent \in BOOLEAN :
               LET due == q.snapOwner # Null
               IN /\ log(ok, "EXCEPTION_CREATED", "Exception", id)
                  /\ notify(ok /\ due /\ sent, q.snapOwner, "EXCEPTION_CREATED", p)
                  /\ Finish(q, Outcome(ok, due => sent), id)
    /\ UNCHANGED <<feeConfigurations, dbChecks, idemKeys, budget, returned>>

\* assign, resolve, cancel: findUnique of the exception and the status checks
exceptionSeen(op, e) ==
  LET base == [Idle EXCEPT !.op = op, !.eid = e]
  IN IF e \notin ExceptionIds
     THEN [base EXCEPT !.pc = "done", !.result = "NotFound"]
     ELSE LET seen == [base EXCEPT !.pid = exceptions[e].parcelId,
                                   !.snap = exceptions[e].status,
                                   !.snapOwner = IF op = "resolve"
                                                 THEN parcels[exceptions[e].parcelId].ownerId
                                                 ELSE Null]
          IN IF exceptions[e].status \in {"RESOLVED", "CANCELLED"}
             THEN [seen EXCEPT !.pc = "done", !.result = "BadRequest"]
             ELSE [seen EXCEPT !.pc = "commit"]

\* assign: read of the exception
assignRead(e) ==
  /\ Ready
  /\ e \in IdsNamed(exceptions)
  /\ BeginException(exceptionSeen("assign", e))
  /\ UNCHANGED <<feeConfigurations, dbChecks, db, idemKeys, returned>>

\* resolve: read of the exception
resolveRead(e) ==
  /\ Ready
  /\ e \in IdsNamed(exceptions)
  /\ BeginException(exceptionSeen("resolve", e))
  /\ UNCHANGED <<feeConfigurations, dbChecks, db, idemKeys, returned>>

\* cancel: read of the exception
cancelRead(e) ==
  /\ Ready
  /\ e \in IdsNamed(exceptions)
  /\ BeginException(exceptionSeen("cancel", e))
  /\ UNCHANGED <<feeConfigurations, dbChecks, db, idemKeys, returned>>

\* assign: update of status and handler, then audit
assignCommit ==
  \E q \in Requests :
    /\ At(q, "assign")
    /\ LET e == q.eid
       IN /\ exceptions' = [exceptions EXCEPT ![e].status = "IN_PROGRESS",
                                              ![e].handledById = "admin"]
          /\ UNCHANGED <<parcels, stateHistory, deliveries, notifications, users>>
          /\ \E ok \in BOOLEAN :
               /\ log(ok, "EXCEPTION_ASSIGNED", "Exception", e)
               /\ Finish(q, Outcome(ok, TRUE), e)
    /\ UNCHANGED <<feeConfigurations, dbChecks, idemKeys, budget, returned>>

\* the transaction shared by resolve and cancel: close the exception, count the
\* other open exceptions of the parcel, unlock the parcel when there is none
closeException(q, closed, action, notifyOwner) ==
  LET e == q.eid
      p == q.pid
      unlock == otherOpenExceptions(p, e) = 0
      row == [parcels[p] EXCEPT !.hasException = FALSE]
  IN Constrained(q, IF unlock THEN row ELSE parcels[p],
       /\ exceptions' = [exceptions EXCEPT ![e] = closed]
       /\ parcels' = IF unlock THEN [parcels EXCEPT ![p] = row] ELSE parcels
       /\ UNCHANGED <<stateHistory, deliveries, users>>
       /\ \E ok \in BOOLEAN, sent \in BOOLEAN :
            LET due == notifyOwner /\ q.snapOwner # Null
            IN /\ log(ok, action, "Exception", e)
               /\ notify(ok /\ due /\ sent, q.snapOwner, "EXCEPTION_RESOLVED", p)
               /\ Finish(q, Outcome(ok, due => sent), e))

\* resolve with a status-only update: the resolution text and resolvedAt are not written
resolveCommitStatusOnly ==
  \E q \in Requests :
    /\ At(q, "resolve")
    /\ closeException(q, [exceptions[q.eid] EXCEPT !.status = "RESOLVED",
                             !.handledById = "admin", !.everClosed = TRUE],
                      "EXCEPTION_RESOLVED", TRUE)
    /\ UNCHANGED <<idemKeys, budget, returned>>

\* resolve: transaction, then audit
resolveCommit ==
  \E q \in Requests :
    /\ At(q, "resolve")
    /\ closeException(q, [exceptions[q.eid] EXCEPT !.status = "RESOLVED",
                             !.resolution = TRUE, !.resolvedAt = TRUE,
                             !.handledById = "admin", !.everClosed = TRUE],
                      "EXCEPTION_RESOLVED", TRUE)
    /\ UNCHANGED <<idemKeys, budget, returned>>

\* cancel: transaction, then audit
cancelCommit ==
  \E q \in Requests :
    /\ At(q, "cancel")
    /\ closeException(q, [exceptions[q.eid] EXCEPT !.status = "CANCELLED",
                             !.handledById = "admin", !.everClosed = TRUE],
                      "EXCEPTION_CANCELLED", FALSE)
    /\ UNCHANGED <<idemKeys, budget, returned>>

\* resolve and cancel inside their transaction, statement by statement at the
\* isolation level the database runs it (READ COMMITTED, none being requested):
\* tx.exception.update, seen by the other transactions at commit, then
\* tx.exception.count over the rows committed so far
closeCount ==
  \E q \in Requests :
    /\ Quiet
    /\ q.pc = "commit" /\ q.op \in {"resolve", "cancel"}
    /\ req' = (req (-) SetToBag({q}))
                (+) SetToBag({[q EXCEPT !.pc = "unlock",
                                        !.others = otherOpenExceptions(q.pid, q.eid)]})
    /\ UNCHANGED <<feeConfigurations, dbChecks, db, idemKeys, response, budget, returned>>

\* the rest of the transaction: tx.parcel.update when the count was 0, and the commit
\* that makes the exception update and the unlock visible; then audit and notification
closeCommit(q, closed, action, notifyOwner) ==
  LET e == q.eid
      p == q.pid
      unlock == q.others = 0
      row == [parcels[p] EXCEPT !.hasException = FALSE]
  IN Constrained(q, IF unlock THEN row ELSE parcels[p],
       /\ exceptions' = [exceptions EXCEPT ![e] = closed]
       /\ parcels' = IF unlock THEN [parcels EXCEPT ![p] = row] ELSE parcels
       /\ UNCHANGED <<stateHistory, deliveries, users>>
       /\ \E ok \in BOOLEAN, sent \in BOOLEAN :
            LET due == notifyOwner /\ q.snapOwner # Null
            IN /\ log(ok, action, "Exception", e)
               /\ notify(ok /\ due /\ sent, q.snapOwner, "EXCEPTION_RESOLVED", p)
               /\ Finish(q, Outcome(ok, due => sent), e))

\* resolve: unlock and commit, then audit
resolveUnlock ==
  \E q \in Requests :
    /\ Quiet
    /\ q.pc = "unlock" /\ q.op = "resolve"
    /\ closeCommit(q, [exceptions[q.eid] EXCEPT !.status = "RESOLVED",
                          !.resolution = TRUE, !.resolvedAt = TRUE,
                          !.handledById = "admin", !.everClosed = TRUE],
                   "EXCEPTION_RESOLVED", TRUE)
    /\ UNCHANGED <<idemKeys, budget, returned>>

\* cancel: unlock and commit, then audit
cancelUnlock ==
  \E q \in Requests :
    /\ Quiet
    /\ q.pc = "unlock" /\ q.op = "cancel"
    /\ closeCommit(q, [exceptions[q.eid] EXCEPT !.status = "CANCELLED",
                          !.handledById = "admin", !.everClosed = TRUE],
                   "EXCEPTION_CANCELLED", FALSE)
    /\ UNCHANGED <<idemKeys, budget, returned>>

----------------------------------------------------------------------------
(* IdempotencyInterceptor *)

\* the earlier successful response to the same request under the same key, if any
PriorOf(base) ==
  IF /\ base.key # NoKey
     /\ returned[base.key].op = base.op
     /\ returned[base.key].pid = base.pid
     /\ returned[base.key].did = base.did
     /\ returned[base.key].actor = base.actor
  THEN returned[base.key]
  ELSE NoPrior

\* the length test below with both bounds made exclusive
KeyLengthRejectedExclusive(key) ==
  key # NoKey /\ (Len(key) <= 16 \/ Len(key) >= 64)

\* intercept: a key shorter than 16 or longer than 64 characters throws
\* ConflictException before the lookup
KeyLengthRejected(key) ==
  key # NoKey /\ (Len(key) < 16 \/ Len(key) > 64)

\* intercept, before next.handle(): TRUE iff the key is found and unexpired
CacheHit(key) == key # NoKey /\ idemKeys[key].present /\ ~idemKeys[key].expired

\* intercept, before next.handle(): TRUE iff the key is found and expired
RecordExpired(key) == key # NoKey /\ idemKeys[key].present /\ idemKeys[key].expired

\* intercept: the cached status code and body are returned, the handler is skipped
Replay(base) ==
  Begin([base EXCEPT !.pc = "done", !.result = idemKeys[base.key].statusCode,
                        !.body = idemKeys[base.key].response, !.prior = PriorOf(base)])

\* the return below with tap() taken as running for a handler that throws as well
FinishWrappedOnError(q, ok, body) ==
  LET k == q.key
      sent == [q EXCEPT !.pc = "done", !.result = Outcome(ok, TRUE),
                        !.body = body, !.committed = TRUE]
  IN /\ response' = sent
     /\ req' = IF k # NoKey
               THEN (req (-) SetToBag({q})) (+) SetToBag({[sent EXCEPT !.pc = "store"]})
               ELSE req (-) SetToBag({q})
     /\ returned' = IF ok /\ k # NoKey /\ returned[k] = NoPrior
                    THEN [returned EXCEPT ![k] =
                            [op |-> q.op, pid |-> q.pid, did |-> q.did,
                             actor |-> q.actor, result |-> "ok", body |-> body]]
                    ELSE returned

\* the handler of a wrapped endpoint returns: tap() starts the insert of the
\* record without awaiting it, and the response goes out
FinishWrapped(q, ok, body) ==
  LET k == q.key
      sent == [q EXCEPT !.pc = "done", !.result = Outcome(ok, TRUE),
                        !.body = body, !.committed = TRUE]
  IN /\ response' = sent
     /\ req' = IF ok /\ k # NoKey
               THEN (req (-) SetToBag({q})) (+) SetToBag({[sent EXCEPT !.pc = "store"]})
               ELSE req (-) SetToBag({q})
     /\ returned' = IF ok /\ k # NoKey /\ returned[k] = NoPrior
                    THEN [returned EXCEPT ![k] =
                            [op |-> q.op, pid |-> q.pid, did |-> q.did,
                             actor |-> q.actor, result |-> "ok", body |-> body]]
                    ELSE returned

\* the tap callback below, awaited and with its catch removed: an insert that throws
\* fails the request
idempotencyStoreThrows ==
  \E q \in Requests, created \in BOOLEAN :
    /\ Quiet
    /\ q.pc = "store"
    /\ idemKeys' = IF idemKeys[q.key].present \/ ~created
                   THEN idemKeys
                   ELSE [idemKeys EXCEPT ![q.key] =
                           [present |-> TRUE, expired |-> FALSE, userId |-> q.actor,
                            endpoint |-> q.op,
                            statusCode |-> q.result, response |-> q.body,
                            insertThrew |-> FALSE]]
    /\ req' = req (-) SetToBag({q})
    /\ response' = IF idemKeys[q.key].present \/ ~created
                   THEN [q EXCEPT !.pc = "done", !.result = "DbError"]
                   ELSE response
    /\ UNCHANGED <<feeConfigurations, dbChecks, db, budget, returned>>

\* intercept, the tap callback: prisma.idempotencyKey.create; a create that throws
\* (a duplicate key, the database) is logged and swallowed
idempotencyStore ==
  \E q \in Requests, created \in BOOLEAN :
    /\ Quiet
    /\ q.pc = "store"
    /\ idemKeys' = IF idemKeys[q.key].present
                   THEN idemKeys
                   ELSE IF ~created
                   THEN [idemKeys EXCEPT ![q.key].insertThrew = TRUE]
                   ELSE [idemKeys EXCEPT ![q.key] =
                           [present |-> TRUE, expired |-> FALSE, userId |-> q.actor,
                            endpoint |-> q.op,
                            statusCode |-> q.result, response |-> q.body,
                            insertThrew |-> FALSE]]
    /\ req' = req (-) SetToBag({q})
    /\ UNCHANGED <<feeConfigurations, dbChecks, db, response, budget, returned>>

\* 24 hours pass: the stored records are past expiresAt
Expire24h ==
  /\ Quiet
  /\ \E k \in Keys : (idemKeys[k].present /\ ~idemKeys[k].expired) \/ returned[k] # NoPrior
  /\ idemKeys' = [k \in Keys |-> IF idemKeys[k].present
                                 THEN [idemKeys[k] EXCEPT !.expired = TRUE]
                                 ELSE idemKeys[k]]
  /\ returned' = [k \in Keys |-> NoPrior]
  /\ UNCHANGED <<feeConfigurations, dbChecks, db, req, response, budget>>

----------------------------------------------------------------------------
(* DeliveriesService *)

\* requestDelivery: read of the parcel and the checks on it; run is the request
requestDeliverySeen(run) ==
  LET p == run.pid
  IN IF p \notin ParcelIds \/ parcels[p].isDeleted
     THEN [run EXCEPT !.pc = "done", !.result = "NotFound"]
     ELSE IF parcels[p].ownerId # run.actor
     THEN [run EXCEPT !.pc = "done", !.result = "Forbidden"]
     ELSE IF parcels[p].state # "STORED"
     THEN [run EXCEPT !.pc = "done", !.result = "BadRequest"]
     ELSE IF deliveryOf(p) # {}
     THEN [run EXCEPT !.pc = "done", !.result = "BadRequest"]
     ELSE IF parcels[p].hasException
     THEN [run EXCEPT !.pc = "done", !.result = "Forbidden"]
     ELSE [run EXCEPT !.pc = "commit", !.fee = calculateFee(parcels[p].weight)]

\* POST /deliveries: interceptor lookup, then requestDelivery's read and checks; on an
\* expired record the request goes on to delete it
requestDeliveryRead(p, user, key) ==
  /\ Ready
  /\ p \in IdsNamed(parcels)
  /\ LET base == [Idle EXCEPT !.op = "requestDelivery", !.pid = p, !.actor = user,
                              !.key = key]
         run == [base EXCEPT !.executed = TRUE, !.prior = PriorOf(base)]
     IN IF KeyLengthRejected(key)
        THEN Begin([base EXCEPT !.pc = "done", !.result = "Conflict"])
        ELSE IF CacheHit(key)
        THEN Replay(base)
        ELSE IF RecordExpired(key)
        THEN Begin([base EXCEPT !.pc = "delete"])
        ELSE Begin(requestDeliverySeen(run))
  /\ UNCHANGED <<feeConfigurations, dbChecks, db, idemKeys, returned>>

\* getFeeEstimate: read of the parcel, the checks on it, calculateFee; body is
\* roundedWeight
getFeeEstimate(p, user) ==
  /\ Ready
  /\ p \in IdsNamed(parcels)
  /\ LET base == [Idle EXCEPT !.pc = "done", !.op = "getFeeEstimate", !.pid = p,
                              !.actor = user]
     IN IF p \notin ParcelIds \/ parcels[p].isDeleted
        THEN Begin([base EXCEPT !.result = "NotFound"])
        ELSE IF parcels[p].ownerId # user
        THEN Begin([base EXCEPT !.result = "Forbidden"])
        ELSE Begin([base EXCEPT !.result = "ok", !.body = Math_ceil(parcels[p].weight),
                                !.fee = calculateFee(parcels[p].weight)])
  /\ UNCHANGED <<feeConfigurations, dbChecks, db, idemKeys, returned>>

\* the Delivery table without the unique index on parcelId
Delivery_parcelId_plain(p) ==
  FALSE

\* CREATE UNIQUE INDEX "Delivery_parcelId_key": an insert for parcel p is refused
\* when a delivery row of p exists
Delivery_parcelId_key(p) ==
  deliveryOf(p) # {}

\* requestDelivery: transaction (delivery row, parcel state, history row), then audit
requestDeliveryCommit ==
  \E q \in Requests :
    /\ At(q, "requestDelivery")
    /\ LET p == q.pid
           id == Len(deliveries) + 1
       IN IF Delivery_parcelId_key(p)
          THEN \* tx.delivery.create throws, the transaction rolls back
               Abort(q) /\ UNCHANGED returned
          ELSE /\ deliveries' = Append(deliveries,
                                  [DeliveryRow(p, q.actor, "PENDING", FALSE, FALSE)
                                     EXCEPT !.weightKg = parcels[p].weight,
                                            !.fee = q.fee])
               /\ parcels' = [parcels EXCEPT ![p].state = "DELIVERY_REQUESTED"]
               /\ stateHistory' = Append(stateHistory,
                                    HistoryRow(p, "STORED", "DELIVERY_REQUESTED",
                                               "Delivery requested by user"))
               /\ users' = [users EXCEPT ![q.actor].deliveryAddress = "dto"]
               /\ UNCHANGED <<exceptions, notifications>>
               /\ \E ok \in BOOLEAN :
                    /\ log(ok, "DELIVERY_REQUESTED", "Delivery", id)
                    /\ FinishWrapped(q, ok, id)
    /\ UNCHANGED <<feeConfigurations, dbChecks, idemKeys, budget>>

\* confirmPayment: read of the delivery and the checks on it; run is the request
confirmPaymentSeen(run) ==
  LET d == run.did
  IN IF d \notin DeliveryIds
     THEN [run EXCEPT !.pc = "done", !.result = "NotFound"]
     ELSE IF deliveries[d].paymentStatus \in {"CONFIRMED", "REFUNDED"}
     THEN [run EXCEPT !.pc = "done", !.result = "BadRequest",
                      !.pid = deliveries[d].parcelId]
     ELSE [run EXCEPT !.pc = "commit", !.pid = deliveries[d].parcelId,
                      !.snap = deliveries[d].paymentStatus]

\* PATCH /deliveries/:id/confirm-payment: interceptor lookup, then confirmPayment's
\* read; on an expired record the request goes on to delete it
confirmPaymentRead(d, key) ==
  /\ Ready
  /\ d \in IdsNamed(deliveries)
  /\ LET base == [Idle EXCEPT !.op = "confirmPayment", !.did = d, !.key = key]
         run == [base EXCEPT !.executed = TRUE, !.prior = PriorOf(base)]
     IN IF KeyLengthRejected(key)
        THEN Begin([base EXCEPT !.pc = "done", !.result = "Conflict"])
        ELSE IF CacheHit(key)
        THEN Replay(base)
        ELSE IF RecordExpired(key)
        THEN Begin([base EXCEPT !.pc = "delete"])
        ELSE Begin(confirmPaymentSeen(run))
  /\ UNCHANGED <<feeConfigurations, dbChecks, db, idemKeys, returned>>

\* a request in flight goes on: rejected by its checks (rec.pc = "done"), or to its
\* writes
Resume(q, rec) ==
  IF rec.pc = "done"
  THEN response' = rec /\ req' = req (-) SetToBag({q})
  ELSE req' = (req (-) SetToBag({q})) (+) SetToBag({rec}) /\ UNCHANGED response

\* intercept, the record found was expired: prisma.idempotencyKey.delete by key, which
\* removes whatever record the key has by now and throws when it has none; then
\* next.handle() with the handler's read and checks
idempotencyDelete ==
  \E q \in Requests :
    /\ Quiet
    /\ q.pc = "delete"
    /\ IF idemKeys[q.key].present
       THEN LET run == [q EXCEPT !.executed = TRUE, !.prior = PriorOf(q)]
            IN /\ idemKeys' = [idemKeys EXCEPT ![q.key] = NoRecord]
               /\ Resume(q, IF q.op = "requestDelivery"
                            THEN requestDeliverySeen(run)
                            ELSE confirmPaymentSeen(run))
       ELSE /\ UNCHANGED idemKeys
            /\ Resume(q, [q EXCEPT !.pc = "done", !.result = "DbError"])
    /\ UNCHANGED <<feeConfigurations, dbChecks, db, budget, returned>>

\* confirmPayment: update of the delivery, then audit
confirmPaymentCommit ==
  \E q \in Requests :
    /\ At(q, "confirmPayment")
    /\ LET d == q.did
       IN /\ deliveries' = [deliveries EXCEPT ![d].paymentStatus = "CONFIRMED",
                                              ![d].paymentConfirmedAt = @ + 1,
                                              ![d].paymentConfirmedById = "staff"]
          /\ UNCHANGED <<parcels, stateHistory, exceptions, notifications, users>>
          /\ \E ok \in BOOLEAN :
               /\ log(ok, "DELIVERY_PAYMENT_CONFIRMED", "Delivery", d)
               /\ FinishWrapped(q, ok, d)
    /\ UNCHANGED <<feeConfigurations, dbChecks, idemKeys, budget>>

\* dispatch: read of the delivery with its parcel, payment and state checks
dispatchRead(d) ==
  /\ Ready
  /\ d \in IdsNamed(deliveries)
  /\ LET base == [Idle EXCEPT !.op = "dispatch", !.did = d]
     IN IF d \notin DeliveryIds
        THEN Begin([base EXCEPT !.pc = "done", !.result = "NotFound"])
        ELSE LET p == deliveries[d].parcelId
                 seen == [base EXCEPT !.pid = p, !.snap = parcels[p].state,
                                      !.snapLock = parcels[p].hasException]
             IN IF deliveries[d].paymentStatus # "CONFIRMED"
                THEN Begin([seen EXCEPT !.pc = "done", !.result = "BadRequest"])
                ELSE IF parcels[p].state # "DELIVERY_REQUESTED"
                THEN Begin([seen EXCEPT !.pc = "done", !.result = "BadRequest"])
                ELSE Begin([seen EXCEPT !.pc = "commit"])
  /\ UNCHANGED <<feeConfigurations, dbChecks, db, idemKeys, returned>>

\* dispatch: transaction (dispatchedAt, parcel state, history row), then audit
dispatchCommit ==
  \E q \in Requests :
    /\ At(q, "dispatch")
    /\ LET d == q.did
           p == q.pid
       IN /\ deliveries' = [deliveries EXCEPT ![d].dispatchedAt = TRUE]
          /\ parcels' = [parcels EXCEPT ![p].state = "OUT_FOR_DELIVERY"]
          /\ stateHistory' = Append(stateHistory,
                               HistoryRow(p, "DELIVERY_REQUESTED", "OUT_FOR_DELIVERY",
                                          "Parcel dispatched for delivery"))
          /\ UNCHANGED <<exceptions, notifications, users>>
          /\ \E ok \in BOOLEAN :
               /\ log(ok, "DELIVERY_DISPATCHED", "Delivery", d)
               /\ Finish(q, Outcome(ok, TRUE), d)
    /\ UNCHANGED <<feeConfigurations, dbChecks, idemKeys, budget, returned>>

\* complete: read of the delivery with its parcel, state check
completeRead(d) ==
  /\ Ready
  /\ d \in IdsNamed(deliveries)
  /\ LET base == [Idle EXCEPT !.op = "complete", !.did = d]
     IN IF d \notin DeliveryIds
        THEN Begin([base EXCEPT !.pc = "done", !.result = "NotFound"])
        ELSE LET p == deliveries[d].parcelId
                 seen == [base EXCEPT !.pid = p, !.snap = parcels[p].state,
                                      !.snapLock = parcels[p].hasException]
             IN IF parcels[p].state # "OUT_FOR_DELIVERY"
                THEN Begin([seen EXCEPT !.pc = "done", !.result = "BadRequest"])
                ELSE Begin([seen EXCEPT !.pc = "commit"])
  /\ UNCHANGED <<feeConfigurations, dbChecks, db, idemKeys, returned>>

\* complete: transaction (deliveredAt, parcel state, history row), then audit
completeCommit ==
  \E q \in Requests :
    /\ At(q, "complete")
    /\ LET d == q.did
           p == q.pid
       IN /\ deliveries' = [deliveries EXCEPT ![d].deliveredAt = TRUE]
          /\ parcels' = [parcels EXCEPT ![p].state = "DELIVERED"]
          /\ stateHistory' = Append(stateHistory,
                               HistoryRow(p, "OUT_FOR_DELIVERY", "DELIVERED",
                                          "Parcel delivered to recipient"))
          /\ UNCHANGED <<exceptions, notifications, users>>
          /\ \E ok \in BOOLEAN :
               /\ log(ok, "DELIVERY_COMPLETED", "Delivery", d)
               /\ Finish(q, Outcome(ok, TRUE), d)
    /\ UNCHANGED <<feeConfigurations, dbChecks, idemKeys, budget, returned>>

----------------------------------------------------------------------------
(* ParcelStateMachineValidator, called on its own *)

\* a call of validateTransition and the result it returns
validate(fromState, toState, hasException, isAdminOverride) ==
  /\ Quiet
  /\ response' =
       [Idle EXCEPT !.pc = "done", !.op = "validateTransition",
                    !.snap = fromState, !.arg = toState, !.snapLock = hasException,
                    !.isAdminOverride = isAdminOverride,
                    !.result = IF validateTransition(fromState, toState, hasException,
                                                     isAdminOverride)
                               THEN "valid" ELSE "invalid",
                    !.error = validateTransitionError(fromState, toState, hasException,
                                                      isAdminOverride)]
  /\ UNCHANGED <<feeConfigurations, dbChecks, db, idemKeys, req, budget, returned>>

\* a call of getValidNextStates and the list it returns
listNextStates(currentState, isAdmin) ==
  /\ Quiet
  /\ response' =
       [Idle EXCEPT !.pc = "done", !.op = "getValidNextStates",
                    !.snap = currentState, !.isAdminOverride = isAdmin,
                    !.states = getValidNextStates(currentState, isAdmin)]
  /\ UNCHANGED <<feeConfigurations, dbChecks, db, idemKeys, req, budget, returned>>

----------------------------------------------------------------------------
(* Specifications *)

Next ==
  \/ \E tn \in TrackingNumbers, mc \in {"PHW-USER01", "PHW-INACT1", "PHW-UNKNOWN"} :
        intakeRead(tn, mc)
  \/ intakeCommit
  \/ \E p \in Ids, s \in ParcelState \ {"EXPECTED"} : updateStateRead(p, s)
  \/ updateStateCommit
  \/ \E p \in Ids : findById(p)
  \/ \E p \in Ids : softDeleteRead(p)
  \/ softDeleteCommit
  \/ \E p \in Ids, mc \in {"PHW-USER02", "PHW-INACT1", "PHW-UNKNOWN"} :
        overrideOwnershipRead(p, mc)
  \/ overrideOwnershipCommit
  \/ \E p \in Ids, ty \in TypesReported : createRead(p, ty)
  \/ createCommit
  \/ \E e \in Ids : assignRead(e)
  \/ assignCommit
  \/ \E e \in Ids : resolveRead(e)
  \/ resolveCommit
  \/ \E e \in Ids : cancelRead(e)
  \/ cancelCommit
  \/ \E p \in Ids, u \in {"user1", "user2"}, k \in {Key16, NoKey} :
        requestDeliveryRead(p, u, k)
  \/ requestDeliveryCommit
  \/ \E d \in Ids, k \in {Key16, NoKey} : confirmPaymentRead(d, k)
  \/ confirmPaymentCommit
  \/ \E d \in Ids : dispatchRead(d)
  \/ dispatchCommit
  \/ \E d \in Ids : completeRead(d)
  \/ completeCommit
  \/ transactionFails
  \/ idempotencyDelete
  \/ idempotencyStore
  \/ Expire24h
  \/ Respond

Spec == Init /\ [][Next]_vars

\* the exception queue alone: a parcel with two reported exceptions (the state after
\* intake and two create requests of different types), three requests at a time
SeedTwoExceptions ==
  [parcels |-> <<Parcel("TRK-1", "PHW-USER01", "user1", "ARRIVED", TRUE)>>,
   stateHistory |-> <<HistoryRow(1, Null, "ARRIVED", Null)>>,
   exceptions |-> <<ExceptionRow(1, "DAMAGED_PARCEL"), ExceptionRow(1, "ILLEGIBLE_LABEL")>>,
   deliveries |-> <<>>]

InitExc == InitFrom({SeedTwoExceptions}, MaxExcRequests)

NextExc ==
  \/ \E e \in 1..Len(SeedTwoExceptions.exceptions) : assignRead(e)
  \/ assignCommit
  \/ \E e \in 1..Len(SeedTwoExceptions.exceptions) : resolveRead(e)
  \/ resolveCommit
  \/ \E e \in 1..Len(SeedTwoExceptions.exceptions) : cancelRead(e)
  \/ cancelCommit
  \/ transactionFails
  \/ Respond

SpecExc == InitExc /\ [][NextExc]_vars

\* the validator alone, called with every combination of its arguments
InitValidator == InitFrom({SeedEmpty}, 0)

NextValidator ==
  \/ \E fromState \in ParcelState, toState \in ParcelState,
        hasException \in BOOLEAN, isAdminOverride \in BOOLEAN :
        validate(fromState, toState, hasException, isAdminOverride)
  \/ \E currentState \in ParcelState, isAdmin \in BOOLEAN :
        listNextStates(currentState, isAdmin)
  \/ Respond

SpecValidator == InitValidator /\ [][NextValidator]_vars

\* the operations that write a parcel's state, on one seeded parcel: three staff and
\* member requests at a time, without idempotency keys
InitLifecycle ==
  InitFrom({SeedArrived, SeedStored, SeedRequested, SeedPaid, SeedOutForDelivery},
           MaxLifecycleRequests)

NextLifecycle ==
  \/ \E p \in Ids, s \in ParcelState \ {"EXPECTED"} : updateStateRead(p, s)
  \/ updateStateCommit
  \/ \E p \in Ids, u \in {"user1", "user2"} : requestDeliveryRead(p, u, NoKey)
  \/ requestDeliveryCommit
  \/ \E d \in Ids : confirmPaymentRead(d, NoKey)
  \/ confirmPaymentCommit
  \/ \E d \in Ids : dispatchRead(d)
  \/ dispatchCommit
  \/ \E d \in Ids : completeRead(d)
  \/ completeCommit
  \/ Respond

SpecLifecycle == InitLifecycle /\ [][NextLifecycle]_vars

\* the idempotency-wrapped endpoints alone, with keys of every length around the bounds
InitKeys == InitFrom({SeedStored, SeedRequested}, MaxKeyRequests)

NextKeys ==
  \/ \E p \in Ids, u \in {"user1"}, k \in {Key15, Key16, Key64, Key65, NoKey} :
        requestDeliveryRead(p, u, k)
  \/ requestDeliveryCommit
  \/ \E d \in Ids, k \in {Key15, Key16, Key64, Key65, NoKey} : confirmPaymentRead(d, k)
  \/ confirmPaymentCommit
  \/ idempotencyDelete
  \/ idempotencyStore
  \/ Expire24h
  \/ Respond

SpecKeys == InitKeys /\ [][NextKeys]_vars

\* fee calculation: one stored parcel of user1 whose weight is one of Weights, the
\* FeeConfiguration table one of FeeTables; fee estimates and delivery requests
Weights == {1, 50, 100, 101, 350, 400, 499, 500, 1000, 5000}

FeeTables ==
  {<<>>,
   <<FeeConfiguration(50, 20, 0, {}, TRUE)>>,
   SeedFeeConfigurations,
   <<FeeConfiguration(30, 10, 0, {500}, TRUE), FeeConfiguration(60, 15, 500, {}, TRUE)>>,
   <<FeeConfiguration(30, 10, 0, {}, TRUE), FeeConfiguration(40, 25, 100, {1000}, TRUE)>>,
   <<FeeConfiguration(40, 25, 100, {1000}, FALSE), FeeConfiguration(30, 10, 0, {}, TRUE)>>,
   <<FeeConfiguration(30, 10, 0, {350}, TRUE)>>,
   <<FeeConfiguration(30, 10, 400, {1000}, TRUE), FeeConfiguration(70, 5, 0, {100}, FALSE)>>,
   <<FeeConfiguration(30, 10, 100, {}, TRUE), FeeConfiguration(45, 12, 100, {500}, TRUE)>>}

InitFee ==
  /\ budget = MaxFeeRequests
  /\ dbChecks = "unobserved"
  /\ \E w \in Weights :
       parcels = <<[Parcel("TRK-1", "PHW-USER01", "user1", "STORED", FALSE)
                     EXCEPT !.weight = w]>>
  /\ stateHistory = SeedStored.stateHistory
  /\ exceptions = <<>>
  /\ deliveries = <<>>
  /\ auditLog = <<>>
  /\ notifications = <<>>
  /\ users = [u \in {"user1", "user2"} |-> [deliveryAddress |-> Null]]
  /\ feeConfigurations \in FeeTables
  /\ idemKeys = [k \in Keys |-> NoRecord]
  /\ req = EmptyBag
  /\ response = Idle
  /\ returned = [k \in Keys |-> NoPrior]

NextFee ==
  \/ \E p \in 1..2, u \in {"user1", "user2"} : getFeeEstimate(p, u)
  \/ \E p \in 1..2, u \in {"user1", "user2"} : requestDeliveryRead(p, u, NoKey)
  \/ requestDeliveryCommit
  \/ Respond

SpecFee == InitFee /\ [][NextFee]_vars

\* the exception requests of one owned parcel with the transactions of resolve and
\* cancel run statement by statement: the parcel has one or two open exceptions
SeedOneException ==
  [parcels |-> SeedTwoExceptions.parcels,
   stateHistory |-> SeedTwoExceptions.stateHistory,
   exceptions |-> <<ExceptionRow(1, "DAMAGED_PARCEL")>>,
   deliveries |-> <<>>]

InitTx == InitFrom({SeedOneException, SeedTwoExceptions}, MaxTxRequests)

NextTx ==
  \/ \E ty \in TypesReported : createRead(1, ty)
  \/ createCommit
  \/ \E e \in 1..Len(SeedTwoExceptions.exceptions) : assignRead(e)
  \/ assignCommit
  \/ \E e \in 1..Len(SeedTwoExceptions.exceptions) : resolveRead(e)
  \/ \E e \in 1..Len(SeedTwoExceptions.exceptions) : cancelRead(e)
  \/ closeCount
  \/ resolveUnlock
  \/ cancelUnlock
  \/ Respond

SpecTx == InitTx /\ [][NextTx]_vars

----------------------------------------------------------------------------
(* Properties *)

\* C1: every parcel without an owner has its exception lock set
OrphanIsLocked ==
  \A p \in ParcelIds : parcels[p].ownerId = Null => parcels[p].hasException

\* C2: no step changes the lifecycle state of a parcel whose exception lock is set
LockedStateFrozen ==
  [][\A p \in ParcelIds : parcels[p].hasException => parcels'[p].state = parcels[p].state]_vars

\* C3: every parcel has a state-history row and its state is the toState of the newest one
StateMatchesLedger ==
  \A p \in ParcelIds :
    /\ Len(historyOf(p)) >= 1
    /\ parcels[p].state = historyOf(p)[Len(historyOf(p))].toState

\* C3 witness: a transition was appended to a ledger that already had its first row
LedgerGrew ==
  /\ response.pc = "done" /\ response.committed
  /\ response.op \in {"updateState", "requestDelivery", "dispatch", "complete"}
  /\ Len(historyOf(response.pid)) >= 2

\* C4: the state-history rows of a parcel, oldest first, form a gapless ledger
GaplessLedger ==
  \A p \in ParcelIds :
    LET h == historyOf(p)
    IN /\ Len(h) >= 1 => h[1].fromState = Null
       /\ \A i \in 2..Len(h) : h[i].fromState = h[i-1].toState

\* the audit entries of one action on one entity
auditCount(action, id) ==
  Cardinality({i \in 1..Len(auditLog) : auditLog[i].action = action /\ auditLog[i].entityId = id})

\* the history rows of parcel p written by dispatch
dispatchRows(p) ==
  Cardinality({i \in 1..Len(stateHistory) :
     /\ stateHistory[i].parcelId = p
     /\ stateHistory[i].fromState = "DELIVERY_REQUESTED"
     /\ stateHistory[i].toState = "OUT_FOR_DELIVERY"
     /\ stateHistory[i].notes = "Parcel dispatched for delivery"})

\* C5: per delivery at most one dispatch took effect and at most one payment
\* confirmation: one history row of dispatch, one DELIVERY_DISPATCHED audit entry, one
\* DELIVERY_PAYMENT_CONFIRMED audit entry
NoDoubleEffect ==
  \A d \in DeliveryIds :
    /\ dispatchRows(deliveries[d].parcelId) <= 1
    /\ auditCount("DELIVERY_DISPATCHED", d) <= 1
    /\ auditCount("DELIVERY_PAYMENT_CONFIRMED", d) <= 1

\* C6: a request repeated under its key after the first response, within 24 hours,
\* gets the first response again and does not run the handler
RetryIsReplayed ==
  (response.pc = "done" /\ response.prior # NoPrior) =>
    /\ response.result = response.prior.result
    /\ response.body = response.prior.body
    /\ ~response.executed

\* C7: a step in which an operation ends on a failed audit write leaves the parcel,
\* state-history, exception and delivery tables as they were before the operation wrote
AuditFailureRollsBack ==
  [][(response' # response /\ response'.result = "AuditFailed")
       => UNCHANGED <<parcels, stateHistory, exceptions, deliveries>>]_vars

\* C8: a parcel out for delivery or delivered has a delivery with confirmed payment
PaidBeforeDelivery ==
  \A p \in ParcelIds :
    parcels[p].state \in {"OUT_FOR_DELIVERY", "DELIVERED"} =>
      \E d \in deliveryOf(p) : deliveries[d].paymentStatus = "CONFIRMED"

\* C9: updateState on a parcel that exists, barring a database failure, accepts exactly
\* what validateTransition accepts, whether or not the caller has the admin-override
\* capability (the service is given the caller's id and nothing it reads of the caller
\* decides the outcome)
UpdateStateRefinesValidator ==
  \A q \in Requests \cup {response} :
    (q.op = "updateState" /\ q.result \notin {"NotFound", "DbError"}) =>
      \A isAdminOverride \in BOOLEAN :
        (q.pc = "commit" \/ q.committed) <=>
           validateTransition(q.snap, q.arg, q.snapLock, isAdminOverride)

\* C10: when resolve or cancel returns, having overlapped no other exception request on
\* the parcel, the parcel is unlocked iff none of its other exceptions is open
LockTracksOpenExceptions ==
  (/\ response.pc = "done" /\ response.op \in {"resolve", "cancel"}
   /\ response.result = "ok" /\ ~response.overlapped) =>
    (~parcels[response.pid].hasException
       <=> otherOpenExceptions(response.pid, response.eid) = 0)

\* the exceptions that intake opened on parcel p and that were never resolved or cancelled
intakeExceptionsPending(p) ==
  {e \in ExceptionIds : /\ exceptions[e].parcelId = p
                        /\ exceptions[e].type = "INVALID_MEMBER_CODE"
                        /\ ~exceptions[e].everClosed}

\* intake has just committed a parcel whose member code resolves to no active user
OrphanIntakeDone ==
  /\ response.pc = "done" /\ response.op = "intake" /\ response.committed
  /\ LET owner == userByMemberCode(response.arg2)
     IN ~owner.found \/ owner.isDeleted \/ ~owner.isActive

\* C11 as stated: an orphan intake leaves an unowned, locked parcel with exactly one
\* exception, OPEN and of type INVALID_MEMBER_CODE, and every updateState on a parcel
\* whose intake exception was never resolved or cancelled is rejected as Forbidden
OrphanIntakeForbidsTransitions ==
  /\ OrphanIntakeDone =>
       LET p == response.body
           mine == {e \in ExceptionIds : exceptions[e].parcelId = p}
       IN /\ parcels[p].ownerId = Null /\ parcels[p].hasException
          /\ Cardinality(mine) = 1
          /\ \A e \in mine : /\ exceptions[e].status = "OPEN"
                              /\ exceptions[e].type = "INVALID_MEMBER_CODE"
  /\ (/\ response.pc = "done" /\ response.op = "updateState"
      /\ response.pid \in ParcelIds
      /\ intakeExceptionsPending(response.pid) # {})
       => response.result = "Forbidden"

\* C11 amended: the same, where the updateState is rejected as Forbidden while the parcel
\* exists and as NotFound once the parcel is soft-deleted
OrphanIntakeRejectsTransitions ==
  /\ OrphanIntakeDone =>
       LET p == response.body
           mine == {e \in ExceptionIds : exceptions[e].parcelId = p}
       IN /\ parcels[p].ownerId = Null /\ parcels[p].hasException
          /\ Cardinality(mine) = 1
          /\ \A e \in mine : /\ exceptions[e].status = "OPEN"
                              /\ exceptions[e].type = "INVALID_MEMBER_CODE"
  /\ (/\ response.pc = "done" /\ response.op = "updateState"
      /\ response.pid \in ParcelIds
      /\ intakeExceptionsPending(response.pid) # {})
       => response.result = IF parcels[response.pid].isDeleted
                            THEN "NotFound" ELSE "Forbidden"

\* C11 witness: an updateState was rejected as Forbidden on an orphan registered by intake
OrphanTransitionForbidden ==
  /\ response.pc = "done" /\ response.op = "updateState"
  /\ response.result = "Forbidden"
  /\ response.pid \in ParcelIds
  /\ parcels[response.pid].ownerId = Null
  /\ intakeExceptionsPending(response.pid) # {}
  /\ historyOf(response.pid)[1].notes = "Parcel registered at intake"

\* C12: no step changes the status, handler, resolution or resolved-at of an exception whose
\* status is RESOLVED or CANCELLED
ClosedExceptionImmutable ==
  [][\A e \in ExceptionIds :
       exceptions[e].status \in {"RESOLVED", "CANCELLED"} =>
         /\ exceptions'[e].status = exceptions[e].status
         /\ exceptions'[e].handledById = exceptions[e].handledById
         /\ exceptions'[e].resolution = exceptions[e].resolution
         /\ exceptions'[e].resolvedAt = exceptions[e].resolvedAt]_vars

\* the open exceptions of one type on parcel p
openOfType(p, ty) ==
  {e \in ExceptionIds : exceptions[e].parcelId = p /\ exceptions[e].type = ty /\ IsOpen(e)}

\* C13: a parcel never has two exceptions of the same type in status OPEN or IN_PROGRESS
OneOpenExceptionPerType ==
  \A p \in ParcelIds, ty \in ExceptionType : Cardinality(openOfType(p, ty)) <= 1

\* C14: a request answered from the idempotency table, without running its handler, is
\* answered from a record that was stored for its own endpoint
ReplayWithinEndpoint ==
  (/\ response.pc = "done" /\ response.key # NoKey /\ ~response.executed) =>
    idemKeys[response.key].endpoint = response.op

\* an insert of the record of key k is still to come
storePending(k) == \E q \in Requests : q.pc = "store" /\ q.key = k

\* a step of the tap callback of some request
StoreStep == \E q \in Requests : q.pc = "store" /\ req' = req (-) SetToBag({q})

\* C15: the insert of an idempotency record, a duplicate included, fails no request and
\* changes neither the response being sent nor a record already stored; a successful
\* wrapped request answers with the result of its own execution; and after an insert
\* for a key its one record is stored unless the insert threw for another reason
RaceKeepsBothResponses ==
  /\ []((response.pc = "done" /\ response.executed /\ response.result = "ok") =>
         IF response.op = "confirmPayment"
         THEN response.body = response.did
         ELSE response.body \in deliveryOf(response.pid))
  /\ [][StoreStep =>
         /\ response' = response
         /\ UNCHANGED db
         /\ \A k \in Keys :
              /\ idemKeys[k].present => idemKeys'[k] = idemKeys[k]
              /\ storePending(k) /\ ~storePending(k)' =>
                    idemKeys'[k].present \/ idemKeys'[k].insertThrew]_vars

\* C15 witness: a request that ran the operation has its own response on the way while
\* the record of its key was stored by another execution of the same operation: its
\* insert will be a duplicate
DuplicateInsertAhead ==
  /\ response.pc = "done" /\ response.executed /\ response.result = "ok"
  /\ response.key # NoKey
  /\ idemKeys[response.key].present
  /\ idemKeys[response.key].endpoint = response.op
  /\ storePending(response.key)

\* the lifecycle, in order
Lifecycle ==
  <<"EXPECTED", "ARRIVED", "STORED", "DELIVERY_REQUESTED", "OUT_FOR_DELIVERY", "DELIVERED">>

\* toState is the single state that follows fromState in the lifecycle
IsNextState(fromState, toState) ==
  \E i \in 1..(Len(Lifecycle) - 1) : Lifecycle[i] = fromState /\ Lifecycle[i + 1] = toState

\* C16: validateTransition is valid exactly when the states differ, the parcel is unlocked
\* or the caller overrides, and the target is the next state or an override pair of an
\* overriding caller
ValidatorMatchesRules ==
  (response.pc = "done" /\ response.op = "validateTransition") =>
    LET fromState == response.snap
        toState == response.arg
        isOverridePair == <<fromState, toState>> \in
                            {<<"DELIVERED", "STORED">>, <<"OUT_FOR_DELIVERY", "STORED">>,
                             <<"DELIVERY_REQUESTED", "STORED">>}
    IN (response.result = "valid") <=>
         /\ fromState # toState
         /\ ~response.snapLock \/ response.isAdminOverride
         /\ IsNextState(fromState, toState) \/ (response.isAdminOverride /\ isOverridePair)

\* C16 witness: an overriding caller moved a locked, delivered parcel back to STORED
OverrideOnLockedAccepted ==
  /\ response.pc = "done" /\ response.op = "validateTransition"
  /\ response.result = "valid"
  /\ response.snap = "DELIVERED" /\ response.arg = "STORED"
  /\ response.snapLock /\ response.isAdminOverride

\* C17: validateTransition rejects a same-state request with the 'already in state' reason
\* whatever the flags; otherwise a locked parcel without override with the exception
\* reason whatever the target; otherwise an illegal target with the 'Invalid transition'
\* reason and the rule text of the current state, the terminal-state text for DELIVERED;
\* and it gives a reason exactly when it rejects
ValidatorRejectsInOrder ==
  (response.pc = "done" /\ response.op = "validateTransition") =>
    LET fromState == response.snap
        toState == response.arg
        locked == response.snapLock /\ ~response.isAdminOverride
        reason == response.error
    IN /\ (response.result = "invalid") <=> (reason # <<>>)
       /\ fromState = toState =>
            /\ response.result = "invalid"
            /\ reason = <<"Parcel is already in", toState, "state">>
       /\ (fromState # toState /\ locked) =>
            /\ response.result = "invalid"
            /\ reason = <<"Parcel has an active exception. Exception must be resolved before state changes.">>
       /\ (fromState # toState /\ ~locked /\ response.result = "invalid") =>
            /\ Len(reason) = 5
            /\ reason[1] = "Invalid transition from"
            /\ reason[2] = fromState /\ reason[4] = toState
            /\ reason[5] = TRANSITION_RULES(fromState)
            /\ fromState = "DELIVERED" =>
                 reason[5] = "Delivered is a terminal state - no further transitions allowed"

\* C17 witness: a same-state request on a locked parcel, without override, was rejected
\* as already in the state
SameStateOnLockedRejected ==
  /\ response.pc = "done" /\ response.op = "validateTransition"
  /\ response.snap = "STORED" /\ response.arg = "STORED"
  /\ response.snapLock /\ ~response.isAdminOverride
  /\ response.result = "invalid"
  /\ response.error[1] = "Parcel is already in"

\* a step in which updateState rejects a request
UpdateStateRejects ==
  /\ response' # response
  /\ response'.pc = "done" /\ response'.op = "updateState"
  /\ response'.result \in {"NotFound", "Forbidden", "BadRequest"}

\* a step in which updateState lets a request through its checks
UpdateStatePasses ==
  /\ budget' = budget - 1
  /\ \E q \in BagToSet(req') :
       /\ q.op = "updateState" /\ q.pc = "commit"
       /\ CopiesIn(q, req') > CopiesIn(q, req)

\* C18: a rejected updateState leaves the parcel rows, the state history and the audit log
\* as they were and names the rule: NotFound for a missing or soft-deleted parcel,
\* Forbidden for a locked one, BadRequest for a target that is not the next state; a
\* request that names the next state of an existing, unlocked parcel is not rejected
RejectedTransitionPersistsNothing ==
  [][/\ UpdateStateRejects =>
          LET p == response'.pid
              gone == p \notin ParcelIds \/ parcels[p].isDeleted
          IN /\ UNCHANGED <<parcels, stateHistory, auditLog>>
             /\ response'.result =
                  IF gone THEN "NotFound"
                  ELSE IF parcels[p].hasException THEN "Forbidden"
                  ELSE "BadRequest"
             /\ response'.result = "BadRequest" =>
                  ~IsNextState(parcels[p].state, response'.arg)
     /\ UpdateStatePasses =>
          /\ UNCHANGED <<parcels, stateHistory, auditLog>>
          /\ \A q \in BagToSet(req') :
               (q.op = "updateState" /\ q.pc = "commit" /\ CopiesIn(q, req') > CopiesIn(q, req))
                 => /\ q.pid \in ParcelIds
                    /\ ~parcels[q.pid].isDeleted /\ ~parcels[q.pid].hasException
                    /\ IsNextState(parcels[q.pid].state, q.arg)]_vars

\* C18 witness: a skip from STORED to DELIVERED was rejected as BadRequest on a parcel
\* that an earlier updateState had moved from ARRIVED to STORED
SkipRejectedAfterStore ==
  /\ response.pc = "done" /\ response.op = "updateState"
  /\ response.result = "BadRequest"
  /\ response.snap = "STORED" /\ response.arg = "DELIVERED"
  /\ \E i \in 1..Len(stateHistory) :
       /\ stateHistory[i].parcelId = response.pid
       /\ stateHistory[i].fromState = "ARRIVED" /\ stateHistory[i].toState = "STORED"
       /\ stateHistory[i].notes = "dto.notes"

\* a step in which requestDelivery ends, with the response it sends
RequestDeliveryEnds ==
  /\ response' # response
  /\ response'.pc = "done" /\ response'.op = "requestDelivery" /\ response'.executed

\* C19: requestDelivery succeeds only on a parcel that its caller owns, that is STORED,
\* has no delivery and is unlocked when the request writes; its success creates one
\* PENDING delivery, sets the parcel to DELIVERY_REQUESTED and appends the history row
\* STORED -> DELIVERY_REQUESTED in the same step; a request rejected by a precondition
\* changes no delivery, parcel, history row or user profile
RequestDeliveryGuarded ==
  [][RequestDeliveryEnds =>
       LET p == response'.pid
       IN IF response'.result = "ok"
          THEN /\ parcels[p].ownerId = response'.actor
               /\ parcels[p].state = "STORED"
               /\ deliveryOf(p) = {}
               /\ ~parcels[p].hasException
               /\ Len(deliveries') = Len(deliveries) + 1
               /\ deliveries'[Len(deliveries')].parcelId = p
               /\ deliveries'[Len(deliveries')].paymentStatus = "PENDING"
               /\ parcels'[p].state = "DELIVERY_REQUESTED"
               /\ stateHistory' = Append(stateHistory,
                                     HistoryRow(p, "STORED", "DELIVERY_REQUESTED",
                                                "Delivery requested by user"))
          ELSE response'.result \in {"NotFound", "Forbidden", "BadRequest"} =>
                 UNCHANGED <<deliveries, parcels, stateHistory, users>>]_vars

\* C20: a parcel never has more than one delivery row, whatever requests interleave
OneDeliveryPerParcel ==
  \A p \in ParcelIds : Cardinality(deliveryOf(p)) <= 1

\* a requestDelivery that had passed the 'no existing delivery' check is refused at
\* its insert, the delivery of its parcel having been created by a concurrent request
SecondDeliveryRefused ==
  /\ response.pc = "done" /\ response.op = "requestDelivery" /\ response.executed
  /\ response.result = "DbError"
  /\ Cardinality(deliveryOf(response.pid)) = 1
  /\ parcels[response.pid].state = "DELIVERY_REQUESTED"

\* a step in which confirmPayment ends on a delivery that exists, with the response it
\* sends, its audit write having gone through if it came to it
ConfirmPaymentEnds ==
  /\ response' # response
  /\ response'.pc = "done" /\ response'.op = "confirmPayment" /\ response'.executed
  /\ response'.did \in DeliveryIds
  /\ response'.result # "AuditFailed"

\* C21: confirmPayment on a delivery that is CONFIRMED or REFUNDED is rejected and
\* changes nothing; on another status its success sets CONFIRMED with the confirmer and
\* the time of confirmation; it never changes the state of a parcel; and every
\* CONFIRMED delivery has paymentConfirmedAt and paymentConfirmedById set
ConfirmPaymentOnce ==
  /\ [](\A d \in DeliveryIds :
          deliveries[d].paymentStatus = "CONFIRMED" =>
            deliveries[d].paymentConfirmedAt # 0 /\ deliveries[d].paymentConfirmedById # Null)
  /\ [][ConfirmPaymentEnds =>
         LET d == response'.did
         IN /\ parcels' = parcels
            /\ IF deliveries[d].paymentStatus \in {"CONFIRMED", "REFUNDED"}
               THEN response'.result # "ok" /\ UNCHANGED db
               ELSE response'.result = "ok" =>
                      /\ deliveries'[d].paymentStatus = "CONFIRMED"
                      /\ deliveries'[d].paymentConfirmedAt # 0
                      /\ deliveries'[d].paymentConfirmedById # Null]_vars

\* C22: every step that changes the state of a parcel moves it to the state that
\* follows it in the lifecycle; so DELIVERED is reached through STORED,
\* DELIVERY_REQUESTED and OUT_FOR_DELIVERY in that order and is never left
OneStepForward ==
  [][\A p \in ParcelIds :
       parcels'[p].state # parcels[p].state =>
         IsNextState(parcels[p].state, parcels'[p].state)]_vars

\* a step in which intake ends, with the response it sends
IntakeEnds ==
  /\ response' # response
  /\ response'.pc = "done" /\ response'.op = "intake"

\* C23: no two parcel rows have the same tracking number; an intake that ends while a
\* parcel, soft-deleted or not, has its tracking number is rejected, and a rejected
\* intake creates no parcel, history row or exception
UniqueTrackingNumber ==
  /\ [](\A p1, p2 \in ParcelIds :
          parcels[p1].trackingNumber = parcels[p2].trackingNumber => p1 = p2)
  /\ [][IntakeEnds =>
         /\ parcelByTracking(response'.arg) # {} =>
              response'.result \in {"BadRequest", "DbError"}
         /\ response'.result \in {"BadRequest", "DbError"} =>
              UNCHANGED <<parcels, stateHistory, exceptions>>]_vars

\* C23 witness: an intake that had found no parcel with its tracking number is refused
\* at its insert, a concurrent intake having created one
SecondIntakeRefused ==
  /\ response.pc = "done" /\ response.op = "intake" /\ response.result = "DbError"
  /\ Cardinality(parcelByTracking(response.arg)) = 1
  /\ Len(parcels) = 1

\* the audit entries that the step appends
AuditAppended ==
  {auditLog'[i] : i \in (Len(auditLog) + 1)..Len(auditLog')}

\* C24: when an operation returns its result, each transition that it appended to the
\* state history has, among the audit entries it wrote, one of that parcel with the
\* previous and the new state of the transition
TransitionsAudited ==
  [][(response' # response /\ response'.pc = "done" /\ response'.result = "ok") =>
       \A i \in (Len(stateHistory) + 1)..Len(stateHistory') :
         LET h == stateHistory'[i]
         IN h.fromState # Null =>
              \E a \in AuditAppended :
                /\ a.entityType = "Parcel" /\ a.entityId = h.parcelId
                /\ a.previousData = h.fromState /\ a.newData = h.toState]_vars

\* C25: no intake, updateState, overrideOwnership, create or resolve whose writes and
\* audit entry went through ends on the failure of its notification: it returns its
\* result
NotifierFailureSwallowed ==
  (/\ response.pc = "done" /\ response.committed
   /\ response.op \in {"intake", "updateState", "overrideOwnership", "create", "resolve"}
   /\ response.result # "AuditFailed")
    => response.result = "ok"

\* a step in which overrideOwnership ends, with the response it sends, neither a
\* database error nor a failed audit write or notification having stopped it
OverrideOwnershipEnds ==
  /\ response' # response
  /\ response'.pc = "done" /\ response'.op = "overrideOwnership"
  /\ response'.result \in {"NotFound", "BadRequest", "ok"}

\* C26: overrideOwnership naming an inactive or soft-deleted user, or a missing or
\* soft-deleted parcel, is rejected and changes nothing; otherwise it sets the owner to
\* the user of the member code (null when there is none) and stores the member code,
\* writes one audit entry with the previous and the new owner, and leaves the state
\* and the state history as they are
OverrideOwnershipGuarded ==
  [][OverrideOwnershipEnds =>
       LET p == response'.pid
           newOwner == userByMemberCode(response'.arg2)
       IN IF \/ p \notin ParcelIds
             \/ parcels[p].isDeleted
             \/ (newOwner.found /\ (newOwner.isDeleted \/ ~newOwner.isActive))
          THEN response'.result # "ok" /\ UNCHANGED db
          ELSE /\ response'.result = "ok"
               /\ parcels' = [parcels EXCEPT ![p].ownerId = newOwner.id,
                                             ![p].memberCode = response'.arg2]
               /\ auditLog' = Append(auditLog,
                                 [AuditEntry("PARCEL_OWNER_ASSIGNED", "Parcel", p)
                                    EXCEPT !.previousData = parcels[p].ownerId,
                                           !.newData = newOwner.id])
               /\ UNCHANGED stateHistory]_vars

\* q is a request naming a parcel whose handler the step starts: it is new among the
\* requests past their reads, and no request was at its writes in the step
ParcelRequestReceived(q) ==
  /\ \/ q = response' /\ response' # response
     \/ q \in BagToSet(req') /\ CopiesIn(q, req') > CopiesIn(q, req)
  /\ \A r \in Requests : r.pc = "commit" => CopiesIn(r, req') >= CopiesIn(r, req)
  /\ q.pc \in {"done", "commit"}
  /\ q.op \in {"findById", "updateState", "create", "requestDelivery",
               "overrideOwnership", "softDelete"}
  /\ q.op = "requestDelivery" => q.executed

\* C27: softDelete writes the soft-delete flag of its parcel and no other field or row
\* of parcels, state history, exceptions and deliveries; a request for a soft-deleted
\* parcel (a read, updateState, create, requestDelivery, overrideOwnership, softDelete)
\* that runs its handler fails with NotFound, as for a parcel that does not exist, and
\* changes nothing
SoftDeleteHidesParcel ==
  /\ [][(response' # response /\ response'.op = "softDelete" /\ response'.committed) =>
          /\ parcels' = [parcels EXCEPT ![response'.pid].isDeleted = TRUE]
          /\ UNCHANGED <<stateHistory, exceptions, deliveries>>]_vars
  /\ [][\A q \in {response'} \cup BagToSet(req') :
          (/\ ParcelRequestReceived(q)
           /\ (q.pid \notin ParcelIds \/ parcels[q.pid].isDeleted)) =>
             /\ q = response' /\ q.pc = "done" /\ q.result = "NotFound"
             /\ UNCHANGED db]_vars

\* C27 witness: requestDelivery by the owner on a STORED parcel that was soft-deleted is
\* answered NotFound, the rows of the parcel being retained
DeletedParcelNotFound ==
  /\ response.pc = "done" /\ response.op = "requestDelivery" /\ response.executed
  /\ response.result = "NotFound"
  /\ response.pid \in ParcelIds
  /\ parcels[response.pid].isDeleted
  /\ parcels[response.pid].state = "STORED"
  /\ parcels[response.pid].ownerId = response.actor
  /\ Len(historyOf(response.pid)) = 2

\* C28: a request whose key has fewer than 16 or more than 64 characters is answered
\* with the client error 409 without running its handler, in a step that reads, writes
\* and deletes no idempotency record and changes no table; a request whose key has 16
\* to 64 characters is not
KeyLengthChecked ==
  /\ [](response.pc = "done" /\ response.key # NoKey =>
          IF Len(response.key) < 16 \/ Len(response.key) > 64
          THEN response.result = "Conflict" /\ ~response.executed
          ELSE response.result # "Conflict")
  /\ [][(response' # response /\ response'.result = "Conflict") =>
          UNCHANGED <<db, idemKeys, req, returned>>]_vars

\* C28 witness: a key of 65 characters is refused while the record of a request with a
\* key of 64 characters is stored
LongKeyRefused ==
  /\ response.pc = "done" /\ response.key = Key65 /\ response.result = "Conflict"
  /\ Len(Key65) = 65 /\ Len(Key64) = 64
  /\ idemKeys[Key64].present

\* the request q, which had found an expired record, goes on in the step
GoesOnAfterExpired(q) ==
  q.pc = "delete" /\ CopiesIn(q, req') < CopiesIn(q, req)

\* C29: a request that found an expired record of its key leaves no record of the key
\* behind its delete and runs its handler as a first request does; a record that is
\* inserted is unexpired; and no step removes or alters a record that is not expired
ExpiredRecordReplaced ==
  /\ [][\A q \in Requests :
          GoesOnAfterExpired(q) =>
            /\ ~idemKeys'[q.key].present
            /\ \E r \in {response'} \cup BagToSet(req') :
                 /\ r.op = q.op /\ r.key = q.key /\ r.executed
                 /\ r.pc \in {"done", "commit"}]_vars
  /\ [][\A k \in Keys :
          /\ ~idemKeys[k].present /\ idemKeys'[k].present => ~idemKeys'[k].expired
          /\ idemKeys[k].present /\ ~idemKeys[k].expired =>
               idemKeys'[k] = [idemKeys[k] EXCEPT !.expired = idemKeys'[k].expired]]_vars

\* q is a request received in the step
Received(q) ==
  /\ budget' < budget
  /\ \/ q = response' /\ response' # response
     \/ q \in BagToSet(req') /\ CopiesIn(q, req') > CopiesIn(q, req)

\* C30: a record is inserted only by the tap of a request that ran its handler and
\* returned, with that request's status and body; a keyed request that ends in an
\* error starts no insert and stores no record; a request whose key has no record
\* runs its handler; and the status and body of an unexpired record do not change
StoredOnlyOnSuccess ==
  /\ [](\A q \in Requests : q.pc = "store" => q.executed /\ q.result = "ok")
  /\ [][\A k \in Keys :
          /\ ~idemKeys[k].present /\ idemKeys'[k].present =>
               \E q \in Requests :
                 /\ q.pc = "store" /\ q.key = k /\ q.result = "ok"
                 /\ CopiesIn(q, req') < CopiesIn(q, req)
                 /\ idemKeys'[k].statusCode = q.result
                 /\ idemKeys'[k].response = q.body
          /\ idemKeys[k].present /\ ~idemKeys[k].expired /\ idemKeys'[k].present =>
               /\ idemKeys'[k].statusCode = idemKeys[k].statusCode
               /\ idemKeys'[k].response = idemKeys[k].response]_vars
  /\ [][(/\ response' # response /\ response'.pc = "done"
          /\ response'.key # NoKey /\ response'.result # "ok") =>
            /\ \A k \in Keys : idemKeys'[k] = idemKeys[k] \/ ~idemKeys'[k].present
            /\ \A r \in BagToSet(req') :
                 r.pc = "store" => CopiesIn(r, req') <= CopiesIn(r, req)]_vars
  /\ [][\A q \in {response'} \cup BagToSet(req') :
          (Received(q) /\ q.key \in Keys /\ ~idemKeys[q.key].present) =>
             q.executed /\ q.pc \in {"done", "commit"}]_vars

\* C30 witness: a requestDelivery with a key of 16 characters ran its handler and
\* failed; no record of the key is stored and no insert of one is to come
FailedRequestLeavesNoRecord ==
  /\ response.pc = "done" /\ response.op = "requestDelivery"
  /\ response.key = Key16 /\ response.executed
  /\ response.result \notin {"ok", "Conflict"}
  /\ ~idemKeys[Key16].present
  /\ \A q \in Requests : q.key # Key16
  /\ budget > 0

\* C31: every exception in status RESOLVED has its resolution text, its handler and its
\* resolved-at set, whatever the order in which the writes of create, assign, resolve
\* and cancel requests land
ResolvedIsDocumented ==
  \A e \in ExceptionIds :
    exceptions[e].status = "RESOLVED" =>
      /\ exceptions[e].resolution
      /\ exceptions[e].handledById # Null
      /\ exceptions[e].resolvedAt

\* C31 witness: an exception is RESOLVED while an assign or a cancel that read it
\* before the resolve is still to write
ResolvedUnderStaleRequest ==
  \E e \in ExceptionIds, q \in Requests :
    /\ exceptions[e].status = "RESOLVED"
    /\ exceptions[e].resolution /\ exceptions[e].resolvedAt
    /\ q.pc = "commit" /\ q.eid = e /\ q.op \in {"assign", "cancel"}
    /\ q.snap \in {"OPEN", "IN_PROGRESS"}

\* r is the weight rounded up to whole kilograms: the least whole number of kilograms
\* that is not below the weight
IsCeilKg(r, weightKg) ==
  r * 100 >= weightKg /\ (r - 1) * 100 < weightKg

\* fee is a base fee and a per-kg rate of one source (a row of the table, or the
\* default) applied to the weight: weightFee = ceil(w) * perKgRate, totalFee = baseFee +
\* weightFee
FeeOfWeight(fee, weightKg) ==
  \E sel \in {[baseFee |-> feeConfigurations[i].baseFee,
                perKgRate |-> feeConfigurations[i].perKgRate] :
                  i \in 1..Len(feeConfigurations)} \cup {DefaultFee} :
    \E r \in 0..51 :
      /\ IsCeilKg(r, weightKg)
      /\ fee.baseFee = sel.baseFee
      /\ fee.weightFee = r * sel.perKgRate
      /\ fee.totalFee = sel.baseFee + r * sel.perKgRate

\* C32: for a weight up to 50 kg a fee estimate and the Delivery row of requestDelivery
\* hold weightFee = ceil(w) * perKgRate and totalFee = baseFee + weightFee, the estimate
\* gives ceil(w) as its rounded weight, and the estimate of a parcel equals the fee of
\* its Delivery row, written or about to be
FeeIsBasePlusCeil ==
  /\ (response.pc = "done" /\ response.op = "getFeeEstimate" /\ response.result = "ok") =>
       /\ IsCeilKg(response.body, parcels[response.pid].weight)
       /\ FeeOfWeight(response.fee, parcels[response.pid].weight)
       /\ \A d \in deliveryOf(response.pid) : deliveries[d].fee = response.fee
       /\ \A q \in Requests :
            (q.op = "requestDelivery" /\ q.pc = "commit" /\ q.pid = response.pid) =>
               q.fee = response.fee
  /\ \A d \in DeliveryIds :
       /\ deliveries[d].weightKg = parcels[deliveries[d].parcelId].weight
       /\ FeeOfWeight(deliveries[d].fee, deliveries[d].weightKg)

\* C32 witness: the estimate of a parcel of 3.5 kg under base 50 and rate 20 is rounded
\* weight 4, weightFee 80, totalFee 130, and the Delivery row of the parcel holds 130
EstimateOfThreeAndAHalfKg ==
  /\ response.pc = "done" /\ response.op = "getFeeEstimate" /\ response.result = "ok"
  /\ parcels[response.pid].weight = 350
  /\ response.body = 4
  /\ response.fee = [baseFee |-> 50, weightFee |-> 80, totalFee |-> 130]
  /\ \E d \in deliveryOf(response.pid) : deliveries[d].fee.totalFee = 130

\* the weight lies in the half-open range [minWeight, maxWeight) of the active
\* configuration c, a NULL maxWeight being no bound
InHalfOpenRange(c, weightKg) ==
  /\ c.isActive
  /\ c.minWeight <= weightKg
  /\ c.maxWeight = {} \/ \E m \in c.maxWeight : weightKg < m

\* the base fees and rates the fee of a weight may be calculated from: those of the
\* configurations in range with the highest minWeight, the default when none is in range
RatesInRange(weightKg) ==
  LET found == {i \in 1..Len(feeConfigurations) :
                  InHalfOpenRange(feeConfigurations[i], weightKg)}
      highest == {i \in found : \A j \in found :
                    feeConfigurations[j].minWeight <= feeConfigurations[i].minWeight}
  IN IF found = {}
     THEN {DefaultFee}
     ELSE {[baseFee |-> feeConfigurations[i].baseFee,
            perKgRate |-> feeConfigurations[i].perKgRate] : i \in highest}

\* C33: a fee estimate is calculated from the active configuration whose range
\* [minWeight, maxWeight) holds the weight, the one of highest minWeight among several,
\* and from base 50 and rate 20 when no such configuration exists
FeeFromHalfOpenRange ==
  (response.pc = "done" /\ response.op = "getFeeEstimate" /\ response.result = "ok") =>
    \E sel \in RatesInRange(parcels[response.pid].weight) :
      /\ response.fee.baseFee = sel.baseFee
      /\ response.fee.weightFee = response.body * sel.perKgRate

\* C34: a state is in the list of getValidNextStates(s, isAdmin) exactly when
\* validateTransition(s, t, false, isAdmin) is valid; the list of DELIVERED is empty
\* without isAdmin and holds STORED with it; no list holds a state twice
NextStatesMatchValidator ==
  (response.pc = "done" /\ response.op = "getValidNextStates") =>
    LET list == response.states
        listed(t) == \E i \in 1..Len(list) : list[i] = t
    IN /\ \A t \in ParcelState :
            listed(t) <=> validateTransition(response.snap, t, FALSE,
                                             response.isAdminOverride)
       /\ (response.snap = "DELIVERED" /\ ~response.isAdminOverride) => list = <<>>
       /\ (response.snap = "DELIVERED" /\ response.isAdminOverride) => listed("STORED")
       /\ \A i, j \in 1..Len(list) : i # j => list[i] # list[j]

\* C34 witness: for an admin the list of DELIVERED is STORED alone, and that of
\* DELIVERY_REQUESTED is the next state followed by the override
AdminListsOverride ==
  /\ response.pc = "done" /\ response.op = "getValidNextStates"
  /\ response.isAdminOverride
  /\ \/ response.snap = "DELIVERED" /\ response.states = <<"STORED">>
     \/ /\ response.snap = "DELIVERY_REQUESTED"
        /\ response.states = <<"OUT_FOR_DELIVERY", "STORED">>

\* the sequence later begins with the sequence earlier
Extends(later, earlier) ==
  /\ Len(earlier) <= Len(later)
  /\ SubSeq(later, 1, Len(earlier)) = earlier

\* C35: every step leaves the audit entries and the state-history rows written so far
\* in place and unchanged, adding at the end at most: softDelete included
LogsAppendOnly ==
  [][Extends(auditLog', auditLog) /\ Extends(stateHistory', stateHistory)]_vars

\* C35 witness: a parcel was soft-deleted after an earlier request had been audited;
\* the state-history rows of the parcel and the earlier audit entry are in place
LogsKeptAfterSoftDelete ==
  /\ response.pc = "done" /\ response.op = "softDelete" /\ response.result = "ok"
  /\ parcels[response.pid].isDeleted
  /\ Len(historyOf(response.pid)) >= 2
  /\ Len(auditLog) >= 2
  /\ auditLog[Len(auditLog)].action = "PARCEL_DELETED"

\* C36: a parcel with an exception in status OPEN or IN_PROGRESS is locked
OpenExceptionLocksParcel ==
  \A p \in ParcelIds :
    (\E e \in ExceptionIds : exceptions[e].parcelId = p /\ IsOpen(e)) =>
      parcels[p].hasException

\* C37: once every exception of an owned parcel is RESOLVED or CANCELLED and no
\* exception request on the parcel is still in flight, the parcel is unlocked, for as
\* long as no exception is created for it
LockReleasedWhenAllClosed ==
  \A p \in ParcelIds :
    (/\ parcels[p].ownerId # Null
     /\ ExceptionRequests(p) = {}
     /\ \E e \in ExceptionIds : exceptions[e].parcelId = p
     /\ \A e \in ExceptionIds : exceptions[e].parcelId = p => ~IsOpen(e)) =>
      ~parcels[p].hasException

\* C38: dispatch and complete on the delivery of a soft-deleted parcel and resolve and
\* cancel on its exceptions fail or leave the parcel's state, exception lock and owner
\* unchanged
DeletedParcelFrozen ==
  [][\A p \in ParcelIds :
       (/\ parcels[p].isDeleted
        /\ response' # response
        /\ response'.op \in {"dispatch", "complete", "resolve", "cancel"}) =>
          /\ parcels'[p].state = parcels[p].state
          /\ parcels'[p].hasException = parcels[p].hasException
          /\ parcels'[p].ownerId = parcels[p].ownerId]_vars

\* C39: a parcel is in DELIVERY_REQUESTED, OUT_FOR_DELIVERY or DELIVERED exactly when a
\* Delivery row exists for it
DeliveryStateHasDelivery ==
  \A p \in ParcelIds :
    parcels[p].state \in {"DELIVERY_REQUESTED", "OUT_FOR_DELIVERY", "DELIVERED"}
      <=> deliveryOf(p) # {}

\* C40: a request answered from the idempotency table, from a record of its own
\* endpoint, is a request of the user whose request stored the record
ReplayOnlyToCreator ==
  (/\ response.pc = "done" /\ response.key # NoKey /\ ~response.executed
   /\ CacheHit(response.key)
   /\ idemKeys[response.key].endpoint = response.op) =>
    idemKeys[response.key].userId = response.actor

====
